---- MODULE Spec2Model ----
(***************************************************************************)
(* Structural command / undo subsystem of ImageLayoutManager.              *)
(*                                                                         *)
(* The state is the Project (rows, the cell tree, text items) together     *)
(* with the QUndoStack holding the commands of src/app/commands.py.  Every *)
(* action pushes one command (constructing it on the current project and   *)
(* calling its redo()), or moves the stack pointer with undo / redo.       *)
(*                                                                         *)
(* Python objects are mutated in place and commands keep references to     *)
(* them, so every Cell record carries a tag `obj` standing for the         *)
(* identity of the Python object; copy.deepcopy gives every copy a new     *)
(* tag, while Cell.id (a uuid4 string) is copied unchanged.  Millimetre    *)
(* and ratio values are written as integers (2.0 -> 2, 1.0 -> 1).          *)
(***************************************************************************)
EXTENDS Integers, Sequences, FiniteSets, TLC

VARIABLES rows,        \* Project.rows        : sequence of RowTemplate
          cells,       \* Project.cells       : sequence of top-level Cell trees
          text_items,  \* Project.text_items  : sequence of TextItem
          hist,        \* QUndoStack: the commands, oldest first
          index,       \* QUndoStack.index(): number of applied commands
          detached,    \* Cell objects no longer in the tree but still referenced by a command
          nextId,      \* number of uuid4 values drawn so far + 1
          pushed,      \* number of commands pushed so far in the session
          last,        \* what the last step was: "init", "push", "undo", "redo",
                       \* "edit", "layout", "check", "save", "new", "load", "open" or "switch"
          page,        \* Project: the page, margin, gap and label settings
          result,      \* the LayoutResult of the last call of calculate_layout
                       \* under examination, with the project it was called on
          files,       \* the disk: what is found at each path of a layout file
          current_project_path,
                       \* MainWindow._current_project_path of the window in use
          windows,     \* the open windows: which one is in use, who opened
                       \* which, and project and stack of those not in use
          check,       \* the last call of detect_circular_reference under
                       \* examination, with its outcome
          clean_index, \* QUndoStack.cleanIndex() of the window in use: the index
                       \* at the last setClean(), -1 once that state is deleted
          marked       \* what happened to the stack of the window in use since
                       \* its last setClean() or clear(): the index it had then
                       \* (at), and whether a command was pushed while the
                       \* pointer was below that index (cut)

vars == <<rows, cells, text_items, hist, index, detached, nextId, pushed, last,
          page, result, files, current_project_path, windows, check, clean_index, marked>>

\* ---------------------------------------------------------------- bounds
MaxRows == 2
MaxCols == 2
MaxCmds == 2
MaxId == 4
MaxWindows == 2

NULL == "None"

\* ------------------------------------------------------------ data model
\* RowTemplate(index, column_count) with the dataclass defaults.
RowTemplate(idx, cc) ==
    [index |-> idx, column_count |-> cc, height_ratio |-> 1, column_ratios |-> <<>>]

\* the fields of a cell as a node of the tree, for a new cell (a leaf): the
\* commands and the layout engine read and write them, spec.md section 3
\* describes them
TreeFields == [split_direction |-> "none", children |-> <<>>, split_ratios |-> <<>>]

\* Cell(...) with the dataclass defaults; id is the freshly drawn uuid.
\* (scale_bar_show_text, _thickness_mm, _position, _offset_x/_y are left out:
\*  no command writes them and they behave like scale_bar_color.)
Cell(o, i) ==
    [obj |-> o, id |-> i, row_index |-> 0, col_index |-> 0,
     image_path |-> NULL, fit_mode |-> "contain", rotation |-> 0,
     align_h |-> "center", align_v |-> "center",
     padding_top |-> 2, padding_bottom |-> 2, padding_left |-> 2, padding_right |-> 2,
     is_placeholder |-> FALSE, nested_layout_path |-> NULL,
     scale_bar_enabled |-> FALSE, scale_bar_mode |-> "rgb",
     scale_bar_length_um |-> 10, scale_bar_color |-> "#FFFFFF",
     split_direction |-> TreeFields.split_direction,
     children |-> TreeFields.children, split_ratios |-> TreeFields.split_ratios]

\* Cell(row_index=r, col_index=c, is_placeholder=True)
GridPlaceholder(o, i, r, c) ==
    [Cell(o, i) EXCEPT !.row_index = r, !.col_index = c, !.is_placeholder = TRUE]

\* Cell(is_placeholder=True)
Placeholder(o, i) == [Cell(o, i) EXCEPT !.is_placeholder = TRUE]

\* the page and label settings of a new Project
DefaultPage ==
    [page_width_mm |-> 210, page_height_mm |-> 297,
     margin_left_mm |-> 10, margin_right_mm |-> 10,
     margin_top_mm |-> 10, margin_bottom_mm |-> 10,
     gap_mm |-> 2, label_placement |-> "in_cell",
     label_font_size |-> 12, label_row_height |-> 0]

\* LayoutResult({}, {})
EmptyLayoutResult ==
    [cell_rects |-> <<>>, row_heights |-> <<>>, figure_rects |-> <<>>,
     label_rects |-> <<>>, row_rects |-> <<>>]

\* no call of calculate_layout examined yet
NoResult ==
    [called |-> FALSE,
     before |-> [rows |-> <<>>, cells |-> <<>>, text_items |-> <<>>, page |-> DefaultPage],
     value |-> EmptyLayoutResult]

\* Cell.is_leaf
IsLeaf(c) == Len(c.children) = 0

\* TextItem(scope="cell", subtype=st, parent_id=pid)
TextItem(i, st, pid) ==
    [id |-> i, scope |-> "cell", subtype |-> st, parent_id |-> pid, color |-> "#000000"]

\* ---------------------------------------------------------- tree helpers
RECURSIVE AllCells(_)
\* every cell of a forest, pre-order (top-level cells and children at any depth)
AllCells(cs) ==
    IF cs = <<>> THEN <<>>
    ELSE <<Head(cs)>> \o AllCells(Head(cs).children) \o AllCells(Tail(cs))

Range(s) == {s[k] : k \in 1..Len(s)}

ObjsOf(cs) == {c.obj : c \in Range(AllCells(cs))}
IdsOf(cs) == {c.id  : c \in Range(AllCells(cs))}

\* the cell object with tag o (tags are unique among the objects of a tree)
GetObj(cs, o) == CHOOSE c \in Range(AllCells(cs)) : c.obj = o

RECURSIVE ReplaceObj(_, _, _)
\* in-place mutation of the object tagged o: the tree with that node replaced by nc
ReplaceObj(cs, o, nc) ==
    [k \in 1..Len(cs) |->
        IF cs[k].obj = o THEN nc
        ELSE [cs[k] EXCEPT !.children = ReplaceObj(cs[k].children, o, nc)]]

RECURSIVE Strip(_)
\* the value of a forest, object identities forgotten (what == on dataclasses compares)
Strip(cs) ==
    [k \in 1..Len(cs) |-> [cs[k] EXCEPT !.obj = 0, !.children = Strip(cs[k].children)]]

RECURSIVE Fresh(_, _)
\* k object tags not in `used`
Fresh(used, k) ==
    IF k = 0 THEN <<>>
    ELSE LET m == CHOOSE x \in 1..(Cardinality(used) + 1) :
                      x \notin used /\ \A y \in 1..(x - 1) : y \in used
         IN  <<m>> \o Fresh(used \cup {m}, k - 1)

RECURSIVE Retag(_, _)
\* copy.deepcopy of a forest: same values, new objects (tags taken from fr, pre-order)
Retag(cs, fr) ==
    IF cs = <<>> THEN <<>>
    ELSE LET c == Head(cs)
             n == Len(AllCells(<<c>>))
         IN  <<[c EXCEPT !.obj = fr[1],
                         !.children = Retag(c.children, SubSeq(fr, 2, n))]>>
             \o Retag(Tail(cs), SubSeq(fr, n + 1, Len(fr)))


\* Project.find_cell_by_id: first cell with this id, searching each top-level
\* cell and then its sub-cells; the result is the object's tag, 0 for None.
FindCellById(cs, id) ==
    LET all == AllCells(cs)
        hits == {k \in 1..Len(all) : all[k].id = id}
    IN  IF hits = {} THEN 0
        ELSE all[CHOOSE k \in hits : \A j \in hits : k <= j].obj

RECURSIVE FindParentIn(_, _)
\* Project.find_parent_of, for one forest of containers: the first container,
\* depth first, that has a direct child with this id; 0 for None.
FindParentIn(cs, id) ==
    IF cs = <<>> THEN 0
    ELSE LET node == Head(cs)
             direct == {k \in 1..Len(node.children) : node.children[k].id = id}
             first == IF direct = {} THEN Len(node.children) + 1
                      ELSE CHOOSE k \in direct : \A j \in direct : k <= j
             \* children visited before the first direct hit may answer first
             before == FindParentIn(SubSeq(node.children, 1, first - 1), id)
         IN  IF before # 0 THEN before
             ELSE IF direct # {} THEN node.obj
             ELSE FindParentIn(Tail(cs), id)

FindParentOf(cs, id) == FindParentIn(cs, id)

\* next((i for i, c in enumerate(parent.children) if c.id == cell_id), None); 0 for None
ChildIndex(parent, id) ==
    LET hits == {k \in 1..Len(parent.children) : parent.children[k].id = id}
    IN  IF hits = {} THEN 0 ELSE CHOOSE k \in hits : \A j \in hits : k <= j

\* next((r for r in project.rows if r.index == row_index), None): its position, 0 for None
FindRow(rs, idx) ==
    LET hits == {k \in 1..Len(rs) : rs[k].index = idx}
    IN  IF hits = {} THEN 0 ELSE CHOOSE k \in hits : \A j \in hits : k <= j

RECURSIVE SortRows(_)
\* list.sort(key=lambda r: r.index): stable
SortRows(rs) ==
    IF rs = <<>> THEN <<>>
    ELSE LET t == SortRows(SubSeq(rs, 1, Len(rs) - 1))
             x == rs[Len(rs)]
             p == Cardinality({k \in 1..Len(t) : t[k].index <= x.index})
         IN  SubSeq(t, 1, p) \o <<x>> \o SubSeq(t, p + 1, Len(t))

\* What the update callback (MainWindow._refresh_and_update ->
\* CanvasScene.refresh_layout -> LayoutEngine.calculate_layout) does to the
\* project: _compute_col_widths pads a non-empty column_ratios list in place.
\* The page of the model is the default A4 page, whose content area is positive.
PadRatios(r) ==
    IF r.column_count > 0 /\ Len(r.column_ratios) > 0 /\ Len(r.column_ratios) < r.column_count
    THEN [r EXCEPT !.column_ratios =
             @ \o [k \in 1..(r.column_count - Len(@)) |-> 1]]
    ELSE r

RefreshLayout(rs) == [k \in 1..Len(rs) |-> PadRatios(rs[k])]

\* ------------------------------------------------------------ numbers
\* Lengths and ratios are Python floats; they are modelled as exact fractions
\* <<numerator, denominator>> in lowest terms with a positive denominator.
RECURSIVE Gcd(_, _)
Gcd(a, b) == IF b = 0 THEN a ELSE Gcd(b, a % b)

Frac(n, d) ==
    LET Abs(k) == IF k < 0 THEN -k ELSE k
        g == Gcd(Abs(n), Abs(d))
        s == IF d < 0 THEN -1 ELSE 1
    IN  <<(s * n) \div g, (s * d) \div g>>

Num(n) == <<n, 1>>
FAdd(a, b) == Frac(a[1] * b[2] + b[1] * a[2], a[2] * b[2])
FSub(a, b) == Frac(a[1] * b[2] - b[1] * a[2], a[2] * b[2])
FMul(a, b) == Frac(a[1] * b[1], a[2] * b[2])
\* a / b for b # 0
FDiv(a, b) == Frac(a[1] * b[2], a[2] * b[1])
FLt(a, b) == a[1] * b[2] < b[1] * a[2]
FLe(a, b) == a[1] * b[2] <= b[1] * a[2]
FMax(a, b) == IF FLt(a, b) THEN b ELSE a

RECURSIVE FSum(_)
\* sum(...) of a list of fractions
FSum(s) == IF s = <<>> THEN Num(0) ELSE FAdd(Head(s), FSum(Tail(s)))

\* LayoutEngine._label_row_height_mm: max(5.0, min(50.0, label_font_size * 1.2 + 2.0))
LabelRowHeightMm(pg) ==
    LET FMin(a, b) == IF FLt(b, a) THEN b ELSE a
    IN  FMax(Num(5), FMin(Num(50), FAdd(FMul(Num(pg.label_font_size), Frac(6, 5)), Num(2))))

\* ------------------------------------------------- commands: redo bodies
\* A project value P is [rows, cells, text_items, detached, nextId], with
\* page_height_mm where a command sets the page height; `used`
\* is the set of object tags that may not be given to a new object.

\* InsertRowCommand.redo without the loop that shifts the indices of the rows
\* at and after insert_index
InsertRowRedoNoRowShift(P, used, insert_index, column_count) ==
    LET cs1 == [k \in 1..Len(P.cells) |->
                   IF P.cells[k].row_index >= insert_index
                   THEN [P.cells[k] EXCEPT !.row_index = @ + 1] ELSE P.cells[k]]
        rs2 == SortRows(Append(P.rows, RowTemplate(insert_index, column_count)))
        fr  == Fresh(used, column_count)
        new == [k \in 1..column_count |->
                   GridPlaceholder(fr[k], P.nextId + k - 1, insert_index, k - 1)]
    IN  [P EXCEPT !.rows = RefreshLayout(rs2), !.cells = cs1 \o new,
                  !.nextId = @ + column_count]

\* InsertRowCommand.redo
InsertRowRedo(P, used, insert_index, column_count) ==
    LET rs1 == [k \in 1..Len(P.rows) |->
                   IF P.rows[k].index >= insert_index
                   THEN [P.rows[k] EXCEPT !.index = @ + 1] ELSE P.rows[k]]
        cs1 == [k \in 1..Len(P.cells) |->
                   IF P.cells[k].row_index >= insert_index
                   THEN [P.cells[k] EXCEPT !.row_index = @ + 1] ELSE P.cells[k]]
        rs2 == SortRows(Append(rs1, RowTemplate(insert_index, column_count)))
        fr  == Fresh(used, column_count)
        new == [k \in 1..column_count |->
                   GridPlaceholder(fr[k], P.nextId + k - 1, insert_index, k - 1)]
    IN  [P EXCEPT !.rows = RefreshLayout(rs2), !.cells = cs1 \o new,
                  !.nextId = @ + column_count]

\* InsertCellCommand.redo without the loop that shifts the cells at and after
\* insert_col
InsertCellRedoNoShift(P, used, row_index, insert_col) ==
    LET rp == FindRow(P.rows, row_index)
        rs1 == [P.rows EXCEPT ![rp].column_count = @ + 1]
        new == GridPlaceholder(Fresh(used, 1)[1], P.nextId, row_index, insert_col)
    IN  IF rp = 0 THEN P
        ELSE [P EXCEPT !.rows = RefreshLayout(rs1), !.cells = Append(P.cells, new),
                       !.nextId = @ + 1]

\* InsertCellCommand.redo
InsertCellRedo(P, used, row_index, insert_col) ==
    LET rp == FindRow(P.rows, row_index)
        cs1 == [k \in 1..Len(P.cells) |->
                   IF P.cells[k].row_index = row_index /\ P.cells[k].col_index >= insert_col
                   THEN [P.cells[k] EXCEPT !.col_index = @ + 1] ELSE P.cells[k]]
        rs1 == [P.rows EXCEPT ![rp].column_count = @ + 1]
        new == GridPlaceholder(Fresh(used, 1)[1], P.nextId, row_index, insert_col)
    IN  IF rp = 0 THEN P
        ELSE [P EXCEPT !.rows = RefreshLayout(rs1), !.cells = Append(cs1, new),
                       !.nextId = @ + 1]

\* DeleteRowCommand.redo
DeleteRowRedo(P, row_index) ==
    LET KeepRow(r) == r.index # row_index
        KeepCell(c) == c.row_index # row_index
        rs1 == SelectSeq(P.rows, KeepRow)
        cs1 == SelectSeq(P.cells, KeepCell)
        rs2 == [k \in 1..Len(rs1) |->
                   IF rs1[k].index > row_index
                   THEN [rs1[k] EXCEPT !.index = @ - 1] ELSE rs1[k]]
        cs2 == [k \in 1..Len(cs1) |->
                   IF cs1[k].row_index > row_index
                   THEN [cs1[k] EXCEPT !.row_index = @ - 1] ELSE cs1[k]]
    IN  [P EXCEPT !.rows = RefreshLayout(rs2), !.cells = cs2]

\* DeleteCellCommand.redo without the loop that shifts the later cells of the row
DeleteCellRedoNoShift(P, row_index, col_index) ==
    LET rp == FindRow(P.rows, row_index)
        KeepCell(c) == ~(c.row_index = row_index /\ c.col_index = col_index)
        cs1 == SelectSeq(P.cells, KeepCell)
        rs1 == [P.rows EXCEPT ![rp].column_count = @ - 1]
    IN  IF rp = 0 THEN P
        ELSE IF P.rows[rp].column_count <= 1 THEN P
        ELSE [P EXCEPT !.rows = RefreshLayout(rs1), !.cells = cs1]

\* DeleteCellCommand.redo
DeleteCellRedo(P, row_index, col_index) ==
    LET rp == FindRow(P.rows, row_index)
        KeepCell(c) == ~(c.row_index = row_index /\ c.col_index = col_index)
        cs1 == SelectSeq(P.cells, KeepCell)
        cs2 == [k \in 1..Len(cs1) |->
                   IF cs1[k].row_index = row_index /\ cs1[k].col_index > col_index
                   THEN [cs1[k] EXCEPT !.col_index = @ - 1] ELSE cs1[k]]
        rs1 == [P.rows EXCEPT ![rp].column_count = @ - 1]
    IN  IF rp = 0 THEN P
        ELSE IF P.rows[rp].column_count <= 1 THEN P
        ELSE [P EXCEPT !.rows = RefreshLayout(rs1), !.cells = cs2]

RECURSIVE MissingSlots(_, _)
\* the (row.index, col) pairs ChangeRowCountCommand.redo finds not in existing_map,
\* in the order of its two nested loops
MissingSlots(rs, existing) ==
    IF rs = <<>> THEN <<>>
    ELSE LET r == Head(rs)
             Missing(col) == <<r.index, col>> \notin existing
             cols == SelectSeq([k \in 1..r.column_count |-> k - 1], Missing)
         IN  [k \in 1..Len(cols) |-> <<r.index, cols[k]>>] \o MissingSlots(Tail(rs), existing)

\* ChangeRowCountCommand.redo without step 1: no existing cell is kept, every
\* slot gets a new placeholder
ChangeRowCountRedoRebuild(P, used, new_count) ==
    LET current_count == Len(P.rows)
        rs1 == IF new_count > current_count
               THEN P.rows \o [k \in 1..(new_count - current_count) |->
                                  RowTemplate(current_count + k - 1, 2)]
               ELSE IF new_count < current_count
               THEN SubSeq(P.rows, 1, new_count)
               ELSE P.rows
        slots == MissingSlots(rs1, {})
        fr == Fresh(used, Len(slots))
        new == [k \in 1..Len(slots) |->
                   GridPlaceholder(fr[k], P.nextId + k - 1, slots[k][1], slots[k][2])]
    IN  [P EXCEPT !.rows = RefreshLayout(rs1), !.cells = new,
                  !.nextId = @ + Len(slots)]

\* ChangeRowCountCommand.redo
ChangeRowCountRedo(P, used, new_count) ==
    LET current_count == Len(P.rows)
        rs1 == IF new_count > current_count
               THEN P.rows \o [k \in 1..(new_count - current_count) |->
                                  RowTemplate(current_count + k - 1, 2)]
               ELSE IF new_count < current_count
               THEN SubSeq(P.rows, 1, new_count)
               ELSE P.rows
        Valid(c) == LET rp == FindRow(rs1, c.row_index)
                    IN  rp # 0 /\ c.col_index < rs1[rp].column_count
        valid_cells == SelectSeq(P.cells, Valid)
        existing == {<<valid_cells[k].row_index, valid_cells[k].col_index>> :
                        k \in 1..Len(valid_cells)}
        slots == MissingSlots(rs1, existing)
        fr == Fresh(used, Len(slots))
        new == [k \in 1..Len(slots) |->
                   GridPlaceholder(fr[k], P.nextId + k - 1, slots[k][1], slots[k][2])]
    IN  [P EXCEPT !.rows = RefreshLayout(rs1), !.cells = valid_cells \o new,
                  !.nextId = @ + Len(slots)]


\* list.insert(at, x) with a 0-based position; a position past the end appends
ListInsert(s, at, x) ==
    IF at >= Len(s) THEN Append(s, x)
    ELSE SubSeq(s, 1, at) \o <<x>> \o SubSeq(s, at + 1, Len(s))

\* list.pop(i) with a 0-based position i < len
ListPop(s, i) == SubSeq(s, 1, i) \o SubSeq(s, i + 2, Len(s))

\* while len(ratios) < n: ratios.append(1.0)
PadTo(ratios, n) ==
    IF Len(ratios) < n THEN ratios \o [k \in 1..(n - Len(ratios)) |-> 1] ELSE ratios

\* SplitCellCommand.redo without the is_leaf test: a container is split again
SplitCellRedoNoLeafCheck(P, used, cell_id, direction, count) ==
    LET co == FindCellById(P.cells, cell_id)
        cell == GetObj(P.cells, co)
        fr == Fresh(used, count)
        first_child == [Cell(fr[1], P.nextId) EXCEPT
                           !.image_path = cell.image_path,
                           !.fit_mode = cell.fit_mode,
                           !.rotation = cell.rotation,
                           !.align_h = cell.align_h,
                           !.align_v = cell.align_v,
                           !.padding_top = cell.padding_top,
                           !.padding_bottom = cell.padding_bottom,
                           !.padding_left = cell.padding_left,
                           !.padding_right = cell.padding_right,
                           !.is_placeholder = cell.is_placeholder,
                           !.nested_layout_path = cell.nested_layout_path,
                           !.scale_bar_enabled = cell.scale_bar_enabled,
                           !.scale_bar_mode = cell.scale_bar_mode,
                           !.scale_bar_length_um = cell.scale_bar_length_um,
                           !.scale_bar_color = cell.scale_bar_color]
        children == [k \in 1..count |->
                        IF k = 1 THEN first_child
                        ELSE Placeholder(fr[k], P.nextId + k - 1)]
        container == [cell EXCEPT !.children = children,
                                  !.split_direction = direction,
                                  !.split_ratios = [k \in 1..count |-> 1],
                                  !.image_path = NULL,
                                  !.is_placeholder = FALSE,
                                  !.nested_layout_path = NULL,
                                  !.scale_bar_enabled = FALSE]
    IN  IF co = 0 THEN P
        ELSE [P EXCEPT !.cells = ReplaceObj(P.cells, co, container),
                       !.rows = RefreshLayout(@),
                       !.nextId = @ + count]

\* SplitCellCommand.redo
SplitCellRedo(P, used, cell_id, direction, count) ==
    LET co == FindCellById(P.cells, cell_id)
        cell == GetObj(P.cells, co)
        fr == Fresh(used, count)
        first_child == [Cell(fr[1], P.nextId) EXCEPT
                           !.image_path = cell.image_path,
                           !.fit_mode = cell.fit_mode,
                           !.rotation = cell.rotation,
                           !.align_h = cell.align_h,
                           !.align_v = cell.align_v,
                           !.padding_top = cell.padding_top,
                           !.padding_bottom = cell.padding_bottom,
                           !.padding_left = cell.padding_left,
                           !.padding_right = cell.padding_right,
                           !.is_placeholder = cell.is_placeholder,
                           !.nested_layout_path = cell.nested_layout_path,
                           !.scale_bar_enabled = cell.scale_bar_enabled,
                           !.scale_bar_mode = cell.scale_bar_mode,
                           !.scale_bar_length_um = cell.scale_bar_length_um,
                           !.scale_bar_color = cell.scale_bar_color]
        children == [k \in 1..count |->
                        IF k = 1 THEN first_child
                        ELSE Placeholder(fr[k], P.nextId + k - 1)]
        container == [cell EXCEPT !.children = children,
                                  !.split_direction = direction,
                                  !.split_ratios = [k \in 1..count |-> 1],
                                  !.image_path = NULL,
                                  !.is_placeholder = FALSE,
                                  !.nested_layout_path = NULL,
                                  !.scale_bar_enabled = FALSE]
    IN  IF co = 0 THEN P
        ELSE IF ~IsLeaf(cell) THEN P
        ELSE [P EXCEPT !.cells = ReplaceObj(P.cells, co, container),
                       !.rows = RefreshLayout(@),
                       !.nextId = @ + count]

\* the sibling insertion without the insertion into split_ratios
InsertSiblingNoRatio(P, used, po, cell_id, position) ==
    LET parent == GetObj(P.cells, po)
        idx == ChildIndex(parent, cell_id) - 1
        insert_at == IF position = "before" THEN idx ELSE idx + 1
        new_cell == Placeholder(Fresh(used, 1)[1], P.nextId)
        children == ListInsert(parent.children, insert_at, new_cell)
    IN  IF idx < 0 THEN P
        ELSE [P EXCEPT !.cells = ReplaceObj(P.cells, po,
                                    [parent EXCEPT !.children = children]),
                       !.rows = RefreshLayout(@),
                       !.nextId = @ + 1]

\* the sibling insertion shared by InsertSubCellCommand.redo and the first
\* branch of WrapAndInsertCommand.redo
InsertSibling(P, used, po, cell_id, position) ==
    LET parent == GetObj(P.cells, po)
        idx == ChildIndex(parent, cell_id) - 1
        insert_at == IF position = "before" THEN idx ELSE idx + 1
        new_cell == Placeholder(Fresh(used, 1)[1], P.nextId)
        children == ListInsert(parent.children, insert_at, new_cell)
        ratios == ListInsert(PadTo(parent.split_ratios, Len(children) - 1), insert_at, 1)
    IN  IF idx < 0 THEN P
        ELSE [P EXCEPT !.cells = ReplaceObj(P.cells, po,
                                    [parent EXCEPT !.children = children,
                                                   !.split_ratios = ratios]),
                       !.rows = RefreshLayout(@),
                       !.nextId = @ + 1]

\* InsertSubCellCommand.redo
InsertSubCellRedo(P, used, cell_id, position) ==
    LET po == FindParentOf(P.cells, cell_id)
    IN  IF po = 0 THEN P ELSE InsertSibling(P, used, po, cell_id, position)

\* DeleteSubCellCommand.redo whose unwrap does not promote the image of the
\* sole remaining child
DeleteSubCellRedoNoImage(P, cell_id) ==
    LET po == FindParentOf(P.cells, cell_id)
        parent == GetObj(P.cells, po)
        idx == ChildIndex(parent, cell_id) - 1
        children == ListPop(parent.children, idx)
        ratios == IF idx < Len(parent.split_ratios)
                  THEN ListPop(parent.split_ratios, idx) ELSE parent.split_ratios
        popped == [parent EXCEPT !.children = children, !.split_ratios = ratios]
        sole == children[1]
        promoted == [parent EXCEPT
                        !.children = sole.children,
                        !.split_direction =
                            IF Len(sole.children) = 0 THEN "none" ELSE sole.split_direction,
                        !.split_ratios =
                            IF Len(sole.children) = 0 THEN <<>> ELSE sole.split_ratios,
                        !.fit_mode = sole.fit_mode,
                        !.rotation = sole.rotation,
                        !.nested_layout_path = sole.nested_layout_path,
                        !.scale_bar_enabled = sole.scale_bar_enabled]
    IN  IF po = 0 THEN P
        ELSE IF Len(parent.children) <= 1 THEN P
        ELSE IF idx < 0 THEN P
        ELSE [P EXCEPT !.cells = ReplaceObj(P.cells, po,
                                    IF Len(children) = 1 THEN promoted ELSE popped),
                       !.rows = RefreshLayout(@)]

\* DeleteSubCellCommand.redo whose unwrap keeps the parent's own
\* split_direction and split_ratios
DeleteSubCellRedoKeepSplit(P, cell_id) ==
    LET po == FindParentOf(P.cells, cell_id)
        parent == GetObj(P.cells, po)
        idx == ChildIndex(parent, cell_id) - 1
        children == ListPop(parent.children, idx)
        ratios == IF idx < Len(parent.split_ratios)
                  THEN ListPop(parent.split_ratios, idx) ELSE parent.split_ratios
        popped == [parent EXCEPT !.children = children, !.split_ratios = ratios]
        sole == children[1]
        promoted == [parent EXCEPT
                        !.children = sole.children,
                        !.split_ratios = ratios,
                        !.image_path = sole.image_path,
                        !.is_placeholder = sole.is_placeholder,
                        !.fit_mode = sole.fit_mode,
                        !.rotation = sole.rotation,
                        !.nested_layout_path = sole.nested_layout_path,
                        !.scale_bar_enabled = sole.scale_bar_enabled]
    IN  IF po = 0 THEN P
        ELSE IF Len(parent.children) <= 1 THEN P
        ELSE IF idx < 0 THEN P
        ELSE [P EXCEPT !.cells = ReplaceObj(P.cells, po,
                                    IF Len(children) = 1 THEN promoted ELSE popped),
                       !.rows = RefreshLayout(@)]

\* DeleteSubCellCommand.redo without the unwrap of a parent left with one child
DeleteSubCellRedoNoUnwrap(P, cell_id) ==
    LET po == FindParentOf(P.cells, cell_id)
        parent == GetObj(P.cells, po)
        idx == ChildIndex(parent, cell_id) - 1
        children == ListPop(parent.children, idx)
        ratios == IF idx < Len(parent.split_ratios)
                  THEN ListPop(parent.split_ratios, idx) ELSE parent.split_ratios
        popped == [parent EXCEPT !.children = children, !.split_ratios = ratios]
    IN  IF po = 0 THEN P
        ELSE IF Len(parent.children) <= 1 THEN P
        ELSE IF idx < 0 THEN P
        ELSE [P EXCEPT !.cells = ReplaceObj(P.cells, po, popped),
                       !.rows = RefreshLayout(@)]

\* DeleteSubCellCommand.redo
DeleteSubCellRedo(P, cell_id) ==
    LET po == FindParentOf(P.cells, cell_id)
        parent == GetObj(P.cells, po)
        idx == ChildIndex(parent, cell_id) - 1
        children == ListPop(parent.children, idx)
        ratios == IF idx < Len(parent.split_ratios)
                  THEN ListPop(parent.split_ratios, idx) ELSE parent.split_ratios
        popped == [parent EXCEPT !.children = children, !.split_ratios = ratios]
        sole == children[1]
        promoted == [parent EXCEPT
                        !.children = sole.children,
                        !.split_direction =
                            IF Len(sole.children) = 0 THEN "none" ELSE sole.split_direction,
                        !.split_ratios =
                            IF Len(sole.children) = 0 THEN <<>> ELSE sole.split_ratios,
                        !.image_path = sole.image_path,
                        !.is_placeholder = sole.is_placeholder,
                        !.fit_mode = sole.fit_mode,
                        !.rotation = sole.rotation,
                        !.nested_layout_path = sole.nested_layout_path,
                        !.scale_bar_enabled = sole.scale_bar_enabled]
    IN  IF po = 0 THEN P
        ELSE IF Len(parent.children) <= 1 THEN P
        ELSE IF idx < 0 THEN P
        ELSE [P EXCEPT !.cells = ReplaceObj(P.cells, po,
                                    IF Len(children) = 1 THEN promoted ELSE popped),
                       !.rows = RefreshLayout(@)]

\* WrapAndInsertCommand.redo
WrapAndInsertRedo(P, used, cell_id, direction, position) ==
    LET co == FindCellById(P.cells, cell_id)
        cell == GetObj(P.cells, co)
        po == FindParentOf(P.cells, cell_id)
        n == Len(AllCells(<<cell>>))
        fr == Fresh(used, n + 1)
        clone == Retag(<<cell>>, SubSeq(fr, 1, n))[1]
        new_cell == Placeholder(fr[n + 1], P.nextId)
        children == IF position = "before" THEN <<new_cell, clone>> ELSE <<clone, new_cell>>
        container == [cell EXCEPT !.children = children,
                                  !.split_direction = direction,
                                  !.split_ratios = <<1, 1>>,
                                  !.image_path = NULL,
                                  !.is_placeholder = FALSE,
                                  !.nested_layout_path = NULL,
                                  !.scale_bar_enabled = FALSE]
    IN  IF co = 0 THEN P
        ELSE IF po # 0 /\ GetObj(P.cells, po).split_direction = direction
        THEN InsertSibling(P, used, po, cell_id, position)
        ELSE [P EXCEPT !.cells = ReplaceObj(P.cells, co, container),
                       !.rows = RefreshLayout(@),
                       !.nextId = @ + 1]

\* ChangeSubCellRatioCommand.redo
ChangeSubCellRatioRedo(P, cell_id, new_ratio) ==
    LET po == FindParentOf(P.cells, cell_id)
        parent == GetObj(P.cells, po)
        idx == ChildIndex(parent, cell_id)
        ratios == [PadTo(parent.split_ratios, Len(parent.children)) EXCEPT ![idx] = new_ratio]
    IN  IF po = 0 THEN P
        ELSE IF idx = 0 THEN P
        ELSE [P EXCEPT !.cells = ReplaceObj(P.cells, po,
                                    [parent EXCEPT !.split_ratios = ratios]),
                       !.rows = RefreshLayout(@)]


\* ------------------------------------- commands that hold object references
IsLive(P, o) == o \in ObjsOf(P.cells)

\* the object a command's reference points to, in the tree or out of it
ReadObj(P, o) == IF IsLive(P, o) THEN GetObj(P.cells, o) ELSE P.detached[o]

\* setattr on that object
WriteObj(P, o, rec) ==
    IF IsLive(P, o) THEN [P EXCEPT !.cells = ReplaceObj(P.cells, o, rec)]
    ELSE [P EXCEPT !.detached = [@ EXCEPT ![o] = rec]]

\* SwapCellsCommand._swap (redo and undo alike)
SwapCells(P, c1, c2) ==
    LET a == ReadObj(P, c1)
        b == ReadObj(P, c2)
        a2 == [a EXCEPT !.image_path = b.image_path,
                        !.is_placeholder = b.is_placeholder,
                        !.fit_mode = b.fit_mode,
                        !.rotation = b.rotation,
                        !.padding_top = b.padding_top,
                        !.padding_bottom = b.padding_bottom,
                        !.padding_left = b.padding_left,
                        !.padding_right = b.padding_right]
        b2 == [b EXCEPT !.image_path = a.image_path,
                        !.is_placeholder = a.is_placeholder,
                        !.fit_mode = a.fit_mode,
                        !.rotation = a.rotation,
                        !.padding_top = a.padding_top,
                        !.padding_bottom = a.padding_bottom,
                        !.padding_left = a.padding_left,
                        !.padding_right = a.padding_right]
        Q == IF c1 = c2 THEN P ELSE WriteObj(WriteObj(P, c1, a2), c2, b2)
    IN  [Q EXCEPT !.rows = RefreshLayout(@)]

RECURSIVE MultiSwapCells(_, _, _)
\* MultiSwapCellsCommand._swap (redo and undo alike): the pairs of
\* zip(sources, targets) in order, each exchanging SWAP_ATTRS, which are the
\* attributes SwapCellsCommand._swap exchanges
MultiSwapCells(P, sources, targets) ==
    IF sources = <<>> \/ targets = <<>> THEN [P EXCEPT !.rows = RefreshLayout(@)]
    ELSE MultiSwapCells(SwapCells(P, Head(sources), Head(targets)),
                        Tail(sources), Tail(targets))

\* DropImageCommand.redo / .undo: both set image_path and is_placeholder
DropImageSet(P, cell, path, placeholder) ==
    LET Q == WriteObj(P, cell, [ReadObj(P, cell) EXCEPT !.image_path = path,
                                                        !.is_placeholder = placeholder])
    IN  [Q EXCEPT !.rows = RefreshLayout(@)]

\* PropertyChangeCommand.redo / .undo: setattr for every key of the dict
\* (the keys the cell handlers of MainWindow pass)
PropertyChangeSet(P, target, values) ==
    LET old == ReadObj(P, target)
        Val(f, cur) == IF f \in DOMAIN values THEN values[f] ELSE cur
        new == [old EXCEPT !.image_path = Val("image_path", @),
                           !.is_placeholder = Val("is_placeholder", @),
                           !.nested_layout_path = Val("nested_layout_path", @),
                           !.rotation = Val("rotation", @),
                           !.fit_mode = Val("fit_mode", @),
                           !.scale_bar_enabled = Val("scale_bar_enabled", @)]
        Q == WriteObj(P, target, new)
    IN  [Q EXCEPT !.rows = RefreshLayout(@)]

\* MainWindow._ensure_cells_exist: the cells of existing slots kept, a new
\* placeholder appended for every slot that has none
EnsureCellsExist(P, used) ==
    LET Valid(c) == LET rp == FindRow(P.rows, c.row_index)
                    IN  rp # 0 /\ c.col_index < P.rows[rp].column_count
        valid_cells == SelectSeq(P.cells, Valid)
        existing == {<<valid_cells[k].row_index, valid_cells[k].col_index>> :
                        k \in 1..Len(valid_cells)}
        slots == MissingSlots(P.rows, existing)
        fr == Fresh(used, Len(slots))
        new == [k \in 1..Len(slots) |->
                   GridPlaceholder(fr[k], P.nextId + k - 1, slots[k][1], slots[k][2])]
    IN  [P EXCEPT !.cells = valid_cells \o new, !.nextId = @ + Len(slots)]

\* PropertyChangeCommand.redo / .undo on the RowTemplate at position k of
\* Project.rows, followed by MainWindow._handle_row_change_callback
RowPropertyChangeSet(P, used, k, values) ==
    LET Val(f, cur) == IF f \in DOMAIN values THEN values[f] ELSE cur
        row == [P.rows[k] EXCEPT !.column_count = Val("column_count", @),
                                 !.height_ratio = Val("height_ratio", @),
                                 !.column_ratios = Val("column_ratios", @)]
        Q == EnsureCellsExist([P EXCEPT !.rows[k] = row], used)
    IN  [Q EXCEPT !.rows = RefreshLayout(@)]

\* AddTextCommand.redo
AddTextRedo(P, item) ==
    [P EXCEPT !.text_items = Append(@, item), !.rows = RefreshLayout(@)]

\* AddTextCommand.undo: list.remove drops the first equal item, if any
AddTextUndo(P, item) ==
    LET hits == {k \in 1..Len(P.text_items) : P.text_items[k] = item}
        first == CHOOSE k \in hits : \A j \in hits : k <= j
    IN  [P EXCEPT !.text_items = IF hits = {} THEN @ ELSE ListPop(@, first - 1),
                  !.rows = RefreshLayout(@)]

\* ----------------------------------------------------------- auto layout
\* AutoLayout.optimize_layout(project), with the new split_ratios it assigns
\* to the container cells on the way (cells) next to the dict it returns
\* (rows, optimal_page_height_mm).  The image files of the model are a.png,
\* as wide as high, and wide.png, twice as wide as high; no other path holds
\* an image (os.path.exists is false).  None is written Num(0): the code
\* treats "None" and "not > 0" alike and an image that loads has a ratio > 0.
\* The values computed are fractions; they are handed out as the model writes
\* numbers, whole ones as integers, and `whole` tells whether every one is whole.
OptimizeLayout(P, pg) ==
    LET None == Num(0)
        Known(a) == FLt(None, a)
        Inv(a) == FDiv(Num(1), a)
        Float(f) == f[1] \div f[2]
        \* round(f, ndigits) for f >= 0, ties to the even neighbour
        Round(f, ndigits) ==
            LET s == IF ndigits = 1 THEN 10 ELSE 100
                n == f[1] * s
                q == n \div f[2]
                r == n % f[2]
            IN  Frac(IF 2 * r > f[2] \/ (2 * r = f[2] /\ q % 2 = 1) THEN q + 1 ELSE q, s)
        Min(s) == CHOOSE m \in Range(s) : \A x \in Range(s) : FLe(m, x)
        \* the one element of a set of one
        Only(S) == CHOOSE x \in S : TRUE
        ImageAspect(path) ==
            IF path = "a.png" THEN Num(1) ELSE IF path = "wide.png" THEN Num(2) ELSE None
        \* 1. aspect_ratios of a leaf cell
        LeafAspect(c) ==
            IF c.image_path # NULL /\ ~c.is_placeholder /\ Known(ImageAspect(c.image_path))
            THEN IF c.rotation \in {90, 270} THEN Inv(ImageAspect(c.image_path))
                 ELSE ImageAspect(c.image_path)
            ELSE None
        \* 1b. _optimise_and_composite(cell): the value it returns
        RECURSIVE Composite(_)
        Composite(c) ==
            IF IsLeaf(c) THEN LeafAspect(c)
            ELSE LET child_aspects == [k \in 1..Len(c.children) |-> Composite(c.children[k])]
                     valid == SelectSeq(child_aspects, Known)
                 IN  IF valid = <<>> THEN None
                     ELSE IF c.split_direction = "horizontal" THEN FSum(valid)
                     ELSE IF c.split_direction = "vertical"
                     THEN Inv(FSum([k \in 1..Len(valid) |-> Inv(valid[k])]))
                     ELSE None
        \* ... and the split_ratios it assigns to a container
        NewRatios(c) ==
            [k \in 1..Len(c.children) |->
                LET a == Composite(c.children[k])
                IN  IF ~Known(a) THEN Num(1)
                    ELSE IF c.split_direction = "horizontal" THEN a ELSE Inv(a)]
        Assigned(c) == ~IsLeaf(c) /\ c.split_direction \in {"horizontal", "vertical"}
        RECURSIVE Optimised(_)
        Optimised(cs) ==
            [k \in 1..Len(cs) |->
                IF Assigned(cs[k])
                THEN LET new_ratios == NewRatios(cs[k])
                     IN  [cs[k] EXCEPT !.children = Optimised(@),
                                       !.split_ratios = [j \in 1..Len(new_ratios) |->
                                                            Float(new_ratios[j])]]
                ELSE [cs[k] EXCEPT !.children = Optimised(@)]]
        \* 2. the column slots of a row
        sorted_rows == SortRows(P.rows)
        SlotAspect(row, i) ==
            LET hits == {k \in 1..Len(P.cells) : /\ P.cells[k].row_index = row.index
                                                 /\ P.cells[k].col_index = i}
                k == CHOOSE h \in hits : \A j \in hits : j <= h
            IN  IF hits = {} THEN None ELSE Composite(P.cells[k])
        Filled(slots) ==
            LET row_aspects == [i \in 1..Len(slots) |->
                                   IF Known(slots[i]) THEN slots[i] ELSE Num(1)]
                valid_aspects == SelectSeq(slots, Known)
                avg_aspect == FDiv(FSum(valid_aspects), Num(Len(valid_aspects)))
            IN  IF valid_aspects = <<>> THEN [i \in 1..Len(slots) |-> Num(1)]
                ELSE [i \in 1..Len(row_aspects) |->
                         IF row_aspects[i] = Num(1) /\ Num(1) \notin Range(valid_aspects)
                         THEN avg_aspect ELSE row_aspects[i]]
        FinalRatios(row) ==
            Only({Filled(slots) :
                    slots \in {[i \in 1..row.column_count |-> SlotAspect(row, i - 1)]}})
        Laid(row) == row.column_count > 0
        \* norm_col_ratios and height_demand of a row with columns
        Normed(final_ratios, min_r) ==
            [column_ratios |-> [i \in 1..Len(final_ratios) |->
                                   Round(FDiv(final_ratios[i], min_r), 2)],
             height_demand |-> Inv(FSum(final_ratios))]
        Partial(row) ==
            Only({Normed(final_ratios, Min(final_ratios)) :
                    final_ratios \in {FinalRatios(row)}})
        laid == SelectSeq(sorted_rows, Laid)
        \* 3. the height ratios
        Heights(partial, min_d) ==
            LET min_h == IF FLt(min_d, Frac(1, 10000)) THEN Num(1) ELSE min_d
            IN  [k \in 1..Len(sorted_rows) |->
                    LET n == Len(SelectSeq(SubSeq(sorted_rows, 1, k), Laid))
                    IN  IF Laid(sorted_rows[k])
                        THEN [column_ratios |-> partial[n].column_ratios,
                              height_ratio |->
                                  Round(FDiv(partial[n].height_demand, min_h), 2)]
                        ELSE [column_ratios |->
                                  [i \in 1..Len(sorted_rows[k].column_ratios) |->
                                      Num(sorted_rows[k].column_ratios[i])],
                              height_ratio |-> Num(sorted_rows[k].height_ratio)]]
        demands == Only({[k \in 1..Len(partial) |-> partial[k].height_demand] :
                           partial \in {[k \in 1..Len(laid) |-> Partial(laid[k])]}})
        new_row_settings ==
            Only({Heights(partial, IF partial = <<>> THEN Num(1)
                                   ELSE Min([k \in 1..Len(partial) |->
                                                partial[k].height_demand])) :
                    partial \in {[k \in 1..Len(laid) |-> Partial(laid[k])]}})
        \* 4. the page height
        content_width == pg.page_width_mm - pg.margin_left_mm - pg.margin_right_mm
        label_row_h == IF pg.label_row_height > 0 THEN Num(pg.label_row_height)
                       ELSE LabelRowHeightMm(pg)
        labeled_cell_ids ==
            {P.text_items[k].parent_id : k \in {j \in 1..Len(P.text_items) :
                /\ P.text_items[j].scope = "cell"
                /\ P.text_items[j].subtype # "corner"
                /\ P.text_items[j].parent_id # 0}}
        rows_with_labels ==
            {P.cells[k].row_index : k \in {j \in 1..Len(P.cells) :
                                              P.cells[j].id \in labeled_cell_ids}}
        total_natural_height ==
            FAdd(FAdd(FMul(Num(content_width), FSum(demands)),
                      Num(IF Len(sorted_rows) > 1
                          THEN (Len(sorted_rows) - 1) * pg.gap_mm ELSE 0)),
                 IF pg.label_placement = "label_row_above"
                 THEN FMul(Num(Cardinality(rows_with_labels)),
                           FAdd(label_row_h, Num(pg.gap_mm)))
                 ELSE Num(0))
        optimal_page_height ==
            Round(FAdd(total_natural_height,
                       Num(pg.margin_top_mm + pg.margin_bottom_mm)), 1)
        split_values == UNION {Range(NewRatios(c)) :
                                  c \in {x \in Range(AllCells(P.cells)) : Assigned(x)}}
        Settings(rs) ==
            [rows |-> [k \in 1..Len(rs) |->
                          [column_ratios |-> [i \in 1..Len(rs[k].column_ratios) |->
                                                 Float(rs[k].column_ratios[i])],
                           height_ratio |-> Float(rs[k].height_ratio)]],
             optimal_page_height_mm |-> Float(optimal_page_height),
             cells |-> Optimised(P.cells),
             whole |-> \A f \in split_values \cup {optimal_page_height}
                                \cup UNION {Range(rs[k].column_ratios)
                                               \cup {rs[k].height_ratio} :
                                            k \in 1..Len(rs)} :
                          f[2] = 1]
    IN  Only({Settings(rs) : rs \in {new_row_settings}})

\* AutoLayoutCommand.redo on the project P with the page settings pg: the
\* rows take height_ratio and column_ratios by position, the page its new
\* height; optimize_layout has set the split_ratios; update_callback
AutoLayoutRedo(P, pg) ==
    LET Written(new_settings) ==
            [rows |-> RefreshLayout(
                          [i \in 1..Len(P.rows) |->
                              [P.rows[i] EXCEPT
                                  !.height_ratio = new_settings.rows[i].height_ratio,
                                  !.column_ratios = new_settings.rows[i].column_ratios]]),
             cells |-> new_settings.cells,
             text_items |-> P.text_items, detached |-> P.detached, nextId |-> P.nextId,
             page_height_mm |-> new_settings.optimal_page_height_mm]
    IN  CHOOSE Q \in {Written(new_settings) : new_settings \in {OptimizeLayout(P, pg)}} : TRUE

\* AutoLayoutCommand.undo: project.rows[:] = copy.deepcopy(old_rows), the page
\* height set back, update_callback
AutoLayoutUndo(c, P) ==
    [rows |-> RefreshLayout(c.old_rows),
     cells |-> P.cells,
     text_items |-> P.text_items, detached |-> P.detached, nextId |-> P.nextId,
     page_height_mm |-> c.old_page_height]

\* ------------------------------------------------------- command objects
\* The fields a command object keeps; each constructor fills the ones it has.
\* old_rows / old_cells are the copy.deepcopy snapshots taken by __init__;
\* pre_rows / pre_cells record the project the command was constructed on,
\* post_rows / post_cells the project its first redo() left.
NoCmd ==
    [type |-> "none", row_index |-> 0, col_index |-> 0, count |-> 0,
     cell_id |-> 0, direction |-> "none", position |-> "none", new_ratio |-> 0,
     c1 |-> 0, c2 |-> 0, new_path |-> NULL, old_path |-> NULL,
     old_is_placeholder |-> FALSE, changes |-> <<>>, old_values |-> <<>>,
     sources |-> <<>>, targets |-> <<>>,
     item |-> <<>>, old_rows |-> <<>>, old_cells |-> <<>>, old_page_height |-> 0,
     pre_rows |-> <<>>, pre_cells |-> <<>>,
     post_rows |-> <<>>, post_cells |-> <<>>]

RowCmdTypes == {"InsertRow", "DeleteRow", "InsertCell", "DeleteCell", "ChangeRowCount"}
SubCellCmdTypes == {"SplitCell", "InsertSubCell", "DeleteSubCell", "WrapAndInsert",
                    "ChangeSubCellRatio"}
StructuralCmdTypes == RowCmdTypes \cup SubCellCmdTypes

\* __init__ of the structural commands: the deep snapshots
Snapshot(P, c) ==
    [c EXCEPT !.old_rows = IF c.type \in RowCmdTypes THEN P.rows ELSE <<>>,
              !.old_cells = Strip(P.cells),
              !.pre_rows = P.rows, !.pre_cells = Strip(P.cells)]

\* __init__ of the commands that keep references
Capture(P, c) == [c EXCEPT !.pre_rows = P.rows, !.pre_cells = Strip(P.cells)]

\* the objects the commands of a list refer to
RefsOf(h) ==
    LET RefsOfCmd(c) ==
            IF c.type = "Swap" THEN {c.c1, c.c2}
            ELSE IF c.type = "MultiSwap" THEN Range(c.sources) \cup Range(c.targets)
            ELSE IF c.type \in {"DropImage", "PropertyChange"} THEN {c.c1}
            ELSE {}
    IN  UNION {RefsOfCmd(h[k]) : k \in 1..Len(h)}

\* redo()
Apply(c, P, used) ==
    CASE c.type = "InsertRow"      -> InsertRowRedo(P, used, c.row_index, c.count)
      [] c.type = "DeleteRow"      -> DeleteRowRedo(P, c.row_index)
      [] c.type = "InsertCell"     -> InsertCellRedo(P, used, c.row_index, c.col_index)
      [] c.type = "DeleteCell"     -> DeleteCellRedo(P, c.row_index, c.col_index)
      [] c.type = "ChangeRowCount" -> ChangeRowCountRedo(P, used, c.count)
      [] c.type = "SplitCell"      -> SplitCellRedo(P, used, c.cell_id, c.direction, c.count)
      [] c.type = "InsertSubCell"  -> InsertSubCellRedo(P, used, c.cell_id, c.position)
      [] c.type = "DeleteSubCell"  -> DeleteSubCellRedo(P, c.cell_id)
      [] c.type = "WrapAndInsert"  ->
             WrapAndInsertRedo(P, used, c.cell_id, c.direction, c.position)
      [] c.type = "ChangeSubCellRatio" -> ChangeSubCellRatioRedo(P, c.cell_id, c.new_ratio)
      [] c.type = "Swap"           -> SwapCells(P, c.c1, c.c2)
      [] c.type = "MultiSwap"      -> MultiSwapCells(P, c.sources, c.targets)
      [] c.type = "DropImage"      -> DropImageSet(P, c.c1, c.new_path, FALSE)
      [] c.type = "PropertyChange" -> PropertyChangeSet(P, c.c1, c.changes)
      [] c.type = "RowPropertyChange" ->
             RowPropertyChangeSet(P, used, c.row_index, c.changes)
      [] c.type = "AddText"        -> AddTextRedo(P, c.item)
      [] c.type = "AutoLayout"     -> AutoLayoutRedo(P, page)

\* undo() of the structural commands without the restore of project.rows
RestoreSnapshotCellsOnly(c, P, used) ==
    LET n == Len(AllCells(c.old_cells))
    IN  [P EXCEPT !.rows = RefreshLayout(@),
                  !.cells = Retag(c.old_cells, Fresh(used, n))]

\* undo() of the structural commands: restore deep copies of the snapshots
RestoreSnapshot(c, P, used) ==
    LET n == Len(AllCells(c.old_cells))
        rs == IF c.type \in RowCmdTypes THEN c.old_rows ELSE P.rows
    IN  [P EXCEPT !.rows = RefreshLayout(rs),
                  !.cells = Retag(c.old_cells, Fresh(used, n))]

\* undo()
Revert(c, P, used) ==
    CASE c.type \in StructuralCmdTypes -> RestoreSnapshot(c, P, used)
      [] c.type = "Swap"           -> SwapCells(P, c.c1, c.c2)
      [] c.type = "MultiSwap"      -> MultiSwapCells(P, c.sources, c.targets)
      [] c.type = "DropImage"      -> DropImageSet(P, c.c1, c.old_path, c.old_is_placeholder)
      [] c.type = "PropertyChange" -> PropertyChangeSet(P, c.c1, c.old_values)
      [] c.type = "RowPropertyChange" ->
             RowPropertyChangeSet(P, used, c.row_index, c.old_values)
      [] c.type = "AddText"        -> AddTextUndo(P, c.item)
      [] c.type = "AutoLayout"     -> AutoLayoutUndo(c, P)


\* ------------------------------------------------------------ the state
CurP == [rows |-> rows, cells |-> cells, text_items |-> text_items,
         detached |-> detached, nextId |-> nextId]

\* the objects outside the tree after a step that took P to Q, for the
\* references refs: a referenced object that left the tree keeps its fields;
\* its children are no longer reachable through any command
Settle(P, Q, refs) ==
    [o \in (refs \ ObjsOf(Q.cells)) |->
        IF o \in DOMAIN Q.detached THEN Q.detached[o]
        ELSE [GetObj(P.cells, o) EXCEPT !.children = <<>>]]

\* the bounds of the model
Bounded(Q) ==
    /\ Len(Q.rows) <= MaxRows
    /\ \A k \in 1..Len(Q.rows) : Q.rows[k].column_count <= MaxCols
    /\ Q.nextId <= MaxId + 1

\* Commit with a push that leaves cleanIndex() alone
CommitKeepCleanIndex(P, Q, h, i, kind) ==
    /\ Bounded(Q)
    /\ pushed' = IF kind = "push" THEN pushed + 1 ELSE pushed
    /\ rows' = Q.rows
    /\ cells' = Q.cells
    /\ text_items' = Q.text_items
    /\ nextId' = Q.nextId
    /\ hist' = h
    /\ index' = i
    /\ detached' = Settle(P, Q, RefsOf(h))
    /\ last' = kind
    /\ clean_index' = clean_index
    /\ marked' = IF kind = "push" /\ index < marked.at THEN [marked EXCEPT !.cut = TRUE]
                 ELSE marked
    /\ page' = IF "page_height_mm" \in DOMAIN Q
               THEN [page EXCEPT !.page_height_mm = Q.page_height_mm] ELSE page
    /\ UNCHANGED <<result, files, current_project_path, windows, check>>

Commit(P, Q, h, i, kind) ==
    /\ Bounded(Q)
    /\ pushed' = IF kind = "push" THEN pushed + 1 ELSE pushed
    /\ rows' = Q.rows
    /\ cells' = Q.cells
    /\ text_items' = Q.text_items
    /\ nextId' = Q.nextId
    /\ hist' = h
    /\ index' = i
    /\ detached' = Settle(P, Q, RefsOf(h))
    /\ last' = kind
    /\ clean_index' = IF kind = "push" /\ clean_index > index THEN -1 ELSE clean_index
    /\ marked' = IF kind = "push" /\ index < marked.at THEN [marked EXCEPT !.cut = TRUE]
                 ELSE marked
    /\ page' = IF "page_height_mm" \in DOMAIN Q
               THEN [page EXCEPT !.page_height_mm = Q.page_height_mm] ELSE page
    /\ UNCHANGED <<result, files, current_project_path, windows, check>>

\* QUndoStack.push(cmd) appending after the last command instead of after index
PushKeepTail(c) ==
    /\ pushed < MaxCmds
    /\ \E Q \in {Apply(c, CurP, ObjsOf(cells) \cup RefsOf(Append(hist, c)))} :
          LET done == [c EXCEPT !.post_rows = Q.rows, !.post_cells = Strip(Q.cells)]
          IN  Commit(CurP, Q, Append(hist, done), index + 1, "push")

\* QUndoStack.push(cmd): drop the commands after index (and with them the
\* clean state, if it lay there), append cmd, call cmd.redo()
Push(c) ==
    /\ pushed < MaxCmds
    /\ \E Q \in {Apply(c, CurP, ObjsOf(cells) \cup RefsOf(Append(SubSeq(hist, 1, index), c)))} :
          LET done == [c EXCEPT !.post_rows = Q.rows, !.post_cells = Strip(Q.cells)]
          IN  Commit(CurP, Q, Append(SubSeq(hist, 1, index), done), index + 1, "push")

\* QUndoStack.undo(): index - 1, then undo() of the command at the new index
Undo ==
    /\ index > 0
    /\ \E Q \in {Revert(hist[index], CurP, RefsOf(hist))} :
          Commit(CurP, Q, hist, index - 1, "undo")

\* QUndoStack.redo(): redo() of the command at index, then index + 1
Redo ==
    /\ index < Len(hist)
    /\ \E Q \in {Apply(hist[index + 1], CurP, ObjsOf(cells) \cup RefsOf(hist))} :
          Commit(CurP, Q, hist, index + 1, "redo")


\* ----------------------------------------------------- argument domains
Directions == {"horizontal", "vertical"}

\* ------------------------------------------------- nested layout files
\* What is found at a path.  A layout file holds what Project.to_dict writes:
\* the rows, the top-level cells with their sub-cells, the text items and the
\* page settings.
MissingFile ==
    [kind |-> "missing", rows |-> <<>>, cells |-> <<>>, text_items |-> <<>>,
     page |-> DefaultPage]

\* The kind "unreadable" is a file that open() or json.load() raises on, the
\* kind "not_object" a file holding JSON that is not an object, such as [].

\* Project.save_to_file: json.dump(self.to_dict(), f)
LayoutFile(P, pg) ==
    [kind |-> "layout", rows |-> P.rows, cells |-> Strip(P.cells),
     text_items |-> P.text_items, page |-> pg]

\* os.path.normcase(os.path.abspath(path)) on a POSIX system: abspath takes
\* the "." segment out of a path, normcase changes nothing
NormPath(p) == IF p = "/d/./a.figlayout" THEN "/d/a.figlayout" ELSE p

\* what open(path) finds on the disk F
FileAt(F, p) == IF NormPath(p) \in DOMAIN F THEN F[NormPath(p)] ELSE MissingFile

\* the outcome of a call: the value returned, or an exception raised, and the
\* set visited as the call leaves it
Outcome(v, r, visited) == [value |-> v, raised |-> r, visited |-> visited]

RECURSIVE WalkForCycle(_, _, _)
RECURSIVE WalkCells(_, _, _, _)

\* the loop `for cell in cells` of _walk_for_cycle, from cell k on
WalkCells(F, cs, k, visited) ==
    IF k > Len(cs) THEN Outcome(FALSE, FALSE, visited)
    ELSE LET nested == cs[k].nested_layout_path
         IN  IF nested # NULL /\ FileAt(F, nested).kind # "missing"
             THEN LET r == WalkForCycle(F, nested, visited)
                  IN  IF r.value \/ r.raised THEN r
                      ELSE WalkCells(F, cs, k + 1, r.visited)
             ELSE WalkCells(F, cs, k + 1, visited)

\* _walk_for_cycle(path, visited): data.get("cells", []) is the list of the
\* top-level cells of the file; data.get raises AttributeError when data is
\* not a dict
WalkForCycle(F, p, visited) ==
    LET file == FileAt(F, p)
        seen == visited \cup {NormPath(p)}
    IN  IF NormPath(p) \in visited THEN Outcome(TRUE, FALSE, visited)
        ELSE IF file.kind \in {"missing", "unreadable"} THEN Outcome(FALSE, FALSE, seen)
        ELSE IF file.kind = "not_object" THEN Outcome(FALSE, TRUE, seen)
        ELSE WalkCells(F, file.cells, 1, seen)

\* detect_circular_reference(parent_path, candidate_path) on the disk F
DetectCircularReference(F, parent_path, candidate_path) ==
    IF NormPath(parent_path) = NormPath(candidate_path)
    THEN Outcome(TRUE, FALSE, {})
    ELSE WalkForCycle(F, candidate_path, {NormPath(parent_path)})

\* no call of detect_circular_reference examined yet
NoCheck ==
    [called |-> FALSE, parent_path |-> NULL, candidate_path |-> NULL,
     value |-> FALSE, raised |-> FALSE]

\* a layout file with one row of one column and an empty cell
PlainFile ==
    LayoutFile([rows |-> <<RowTemplate(0, 1)>>,
                cells |-> <<GridPlaceholder(0, 1, 0, 0)>>,
                text_items |-> <<>>], DefaultPage)

\* a window on a project that has no file yet (_current_project_path is None),
\* opened by no other window and no other window open, the layout files of
\* the Import Layout dialog on disk
Untitled ==
    /\ files = [p \in {"sub.figlayout"} |-> PlainFile]
    /\ current_project_path = NULL
    /\ windows = [focus |-> 1, parent |-> <<0>>, parked |-> <<>>]
    /\ check = NoCheck
    /\ clean_index = 0
    /\ marked = [at |-> 0, cut |-> FALSE]

\* Project.get_all_leaf_cells: the cells the canvas shows an item for
LeafIds == {c.id : c \in {x \in Range(AllCells(cells)) : IsLeaf(x)}}

RowIndices == {rows[k].index : k \in 1..Len(rows)}

\* ------------------------------------------------------------- actions
\* MainWindow._on_insert_row: "Row Above" / "Row Below" of an existing row
InsertRow ==
    \E ri \in RowIndices, d \in {0, 1} :
        Push(Snapshot(CurP, [NoCmd EXCEPT !.type = "InsertRow",
                                          !.row_index = ri + d, !.count = 2]))

\* InsertCellCommand as MainWindow._on_insert_cell issues it: a column of an
\* existing row, left or right of an existing column
InsertCell ==
    \E ri \in RowIndices :
        \E col \in 0..rows[FindRow(rows, ri)].column_count :
            Push(Snapshot(CurP, [NoCmd EXCEPT !.type = "InsertCell",
                                              !.row_index = ri, !.col_index = col]))

\* DeleteRowCommand on an existing row (MainWindow._on_delete_row passes the
\* row of the clicked cell; the command is also applied when it is the only row)
DeleteRow ==
    \E ri \in RowIndices :
        Push(Snapshot(CurP, [NoCmd EXCEPT !.type = "DeleteRow", !.row_index = ri]))

\* DeleteCellCommand on an existing column of a row, or on a row that does not exist
DeleteCell ==
    \E ri \in RowIndices \cup {Len(rows) + 1} :
        \E col \in {k \in 0..MaxCols :
                        k = 0 \/ (FindRow(rows, ri) # 0
                                    /\ k < rows[FindRow(rows, ri)].column_count)} :
            Push(Snapshot(CurP, [NoCmd EXCEPT !.type = "DeleteCell",
                                              !.row_index = ri, !.col_index = col]))

\* MainWindow._on_row_count_changed: nothing is pushed when the project
\* already has this number of rows
ChangeRowCount ==
    \E n \in 1..MaxRows :
        /\ Len(rows) # n
        /\ Push(Snapshot(CurP, [NoCmd EXCEPT !.type = "ChangeRowCount", !.count = n]))

\* ChangeRowCountCommand(project, new_count) pushed on its own, whatever the
\* number of rows of the project
ChangeRowCountCommand ==
    \E n \in 1..MaxRows :
        /\ pushed < MaxCmds
        /\ Push(Snapshot(CurP, [NoCmd EXCEPT !.type = "ChangeRowCount", !.count = n]))

\* SplitCellCommand(project, cell_id, direction, count)
SplitCell ==
    \E id \in IdsOf(cells), dir \in Directions, n \in {2, 3} :
        Push(Snapshot(CurP, [NoCmd EXCEPT !.type = "SplitCell", !.cell_id = id,
                                          !.direction = dir, !.count = n]))

\* MainWindow._ctx_insert_subcell
InsertSubCell ==
    \E id \in IdsOf(cells), pos \in {"before", "after"} :
        Push(Snapshot(CurP, [NoCmd EXCEPT !.type = "InsertSubCell", !.cell_id = id,
                                          !.position = pos]))

\* MainWindow._ctx_delete_subcell
DeleteSubCell ==
    \E id \in IdsOf(cells) :
        Push(Snapshot(CurP, [NoCmd EXCEPT !.type = "DeleteSubCell", !.cell_id = id]))

\* MainWindow._ctx_wrap_and_insert
WrapAndInsert ==
    \E id \in IdsOf(cells), dir \in Directions, pos \in {"before", "after"} :
        Push(Snapshot(CurP, [NoCmd EXCEPT !.type = "WrapAndInsert", !.cell_id = id,
                                          !.direction = dir, !.position = pos]))

\* MainWindow._on_subcell_ratio_changed
ChangeSubCellRatio ==
    \E id \in IdsOf(cells) :
        Push(Snapshot(CurP, [NoCmd EXCEPT !.type = "ChangeSubCellRatio", !.cell_id = id,
                                          !.new_ratio = 2]))

\* MainWindow._find_neighbor_cell for the four directions of swap_cell:
\* the first top-level cell at the target slot, 0 for None
FindNeighborCell(cell, direction) ==
    LET max_col == IF FindRow(rows, cell.row_index) = 0 THEN 0
                   ELSE rows[FindRow(rows, cell.row_index)].column_count - 1
        target_row == CASE direction = "up" -> cell.row_index - 1
                        [] direction = "down" -> cell.row_index + 1
                        [] OTHER -> cell.row_index
        target_col == CASE direction = "left" -> cell.col_index - 1
                        [] direction = "right" ->
                               IF cell.col_index + 1 <= max_col
                               THEN cell.col_index + 1 ELSE max_col
                        [] OTHER -> cell.col_index
        hits == {k \in 1..Len(cells) : cells[k].row_index = target_row
                                       /\ cells[k].col_index = target_col}
    IN  IF hits = {} THEN 0
        ELSE cells[CHOOSE k \in hits : \A j \in hits : k <= j].obj

\* MainWindow._on_swap_cell_direction: Ctrl+arrow on the selected cell item
SwapCellDirection ==
    \E id \in LeafIds, direction \in {"up", "down", "left", "right"} :
        LET co == FindCellById(cells, id)
            cell == GetObj(cells, co)
            neighbor == FindNeighborCell(cell, direction)
        IN  /\ co # 0
            /\ neighbor # 0
            /\ GetObj(cells, neighbor).id # cell.id
            /\ Push(Capture(CurP, [NoCmd EXCEPT !.type = "Swap", !.c1 = co,
                                                !.c2 = neighbor]))

\* MainWindow._on_cell_swapped: one cell item dragged onto another
CellSwapped ==
    \E id1 \in LeafIds, id2 \in LeafIds :
        LET c1 == FindCellById(cells, id1)
            c2 == FindCellById(cells, id2)
        IN  /\ id1 # id2
            /\ c1 # 0 /\ c2 # 0
            /\ Push(Capture(CurP, [NoCmd EXCEPT !.type = "Swap", !.c1 = c1, !.c2 = c2]))

\* MainWindow._on_multi_cells_swapped: two selected cell items dragged onto two
\* others (DragManager offers targets that are no sources)
MultiCellsSwapped ==
    \E s1 \in LeafIds, s2 \in LeafIds, t1 \in LeafIds, t2 \in LeafIds :
        LET sources == <<FindCellById(cells, s1), FindCellById(cells, s2)>>
            targets == <<FindCellById(cells, t1), FindCellById(cells, t2)>>
        IN  /\ Cardinality({s1, s2, t1, t2}) = 4
            /\ 0 \notin Range(sources) \cup Range(targets)
            /\ Push(Capture(CurP, [NoCmd EXCEPT !.type = "MultiSwap",
                                                !.sources = sources,
                                                !.targets = targets]))

\* MultiSwapCellsCommand(sources, targets) pushed on any two lists of two
\* cells, as the first command of a session: the command and
\* _on_multi_cells_swapped accept lists that share cells
\* (DragManager._find_target_cells offers none)
MultiSwapCellsCommand ==
    \E s1 \in LeafIds, s2 \in LeafIds, t1 \in LeafIds, t2 \in LeafIds :
        LET sources == <<FindCellById(cells, s1), FindCellById(cells, s2)>>
            targets == <<FindCellById(cells, t1), FindCellById(cells, t2)>>
        IN  /\ hist = <<>>
            /\ 0 \notin Range(sources) \cup Range(targets)
            /\ Push(Capture(CurP, [NoCmd EXCEPT !.type = "MultiSwap",
                                                !.sources = sources,
                                                !.targets = targets]))

\* MainWindow._on_cell_image_dropped / _ctx_import_image
DropImage ==
    \E id \in LeafIds, path \in {"a.png"} :
        LET co == FindCellById(cells, id)
            cell == GetObj(cells, co)
        IN  /\ co # 0
            /\ Push(Capture(CurP, [NoCmd EXCEPT !.type = "DropImage", !.c1 = co,
                                                !.new_path = path,
                                                !.old_path = cell.image_path,
                                                !.old_is_placeholder = cell.is_placeholder]))

\* MainWindow._ctx_delete_image
DeleteImage ==
    \E id \in LeafIds :
        LET co == FindCellById(cells, id)
            cell == GetObj(cells, co)
        IN  /\ co # 0
            /\ (cell.image_path # NULL \/ ~cell.is_placeholder)
            /\ Push(Capture(CurP, [NoCmd EXCEPT
                        !.type = "PropertyChange", !.c1 = co,
                        !.changes = [image_path |-> NULL, is_placeholder |-> TRUE],
                        !.old_values = [image_path |-> cell.image_path,
                                        is_placeholder |-> cell.is_placeholder]]))

\* MainWindow._ctx_import_layout of a file the dialog shows: the import is
\* dropped when the project has a path and the cycle check returns True (or
\* raises); otherwise a PropertyChangeCommand is pushed
ImportLayout ==
    \E id \in LeafIds, f \in {p \in DOMAIN files : files[p].kind # "missing"} :
        LET co == FindCellById(cells, id)
            cell == GetObj(cells, co)
            r == DetectCircularReference(files, current_project_path, f)
        IN  /\ current_project_path = NULL \/ ~(r.value \/ r.raised)
            /\ co # 0
            /\ Push(Capture(CurP, [NoCmd EXCEPT
                        !.type = "PropertyChange", !.c1 = co,
                        !.changes = [nested_layout_path |-> f],
                        !.old_values = [nested_layout_path |-> cell.nested_layout_path]]))

\* MainWindow._on_row_property_changed: a PropertyChangeCommand on the row of
\* the selected cell.  The row object is referred to by its position in
\* Project.rows, which holds as long as no command replaces or reorders the
\* rows.  The dicts are those the row group of the inspector emits: the
\* column count spin box, the height ratio spin box and the column ratios line
RowPropertyChanged ==
    \E id \in LeafIds,
       changes \in {[column_count |-> n] : n \in 1..MaxCols}
                       \cup {[height_ratio |-> 2], [column_ratios |-> <<2, 1>>]} :
        LET co == FindCellById(cells, id)
            k == FindRow(rows, GetObj(cells, co).row_index)
            old == [f \in DOMAIN changes |-> rows[k][f]]
        IN  /\ co # 0
            /\ k # 0
            /\ Push(Capture(CurP, [NoCmd EXCEPT !.type = "RowPropertyChange",
                                                !.row_index = k,
                                                !.changes = changes,
                                                !.old_values = old]))

\* MainWindow._ctx_add_corner_label (subtype "corner") and the AddTextCommand of
\* _ctx_add_numbering_label (subtype None): a TextItem scoped to the clicked cell
AddText ==
    \E id \in LeafIds :
        LET item == TextItem(nextId, "corner", id)
            P == [CurP EXCEPT !.nextId = @ + 1]
            c == Capture(CurP, [NoCmd EXCEPT !.type = "AddText", !.item = item])
            h == Append(SubSeq(hist, 1, index), c)
        IN  /\ pushed < MaxCmds
            /\ Commit(CurP, Apply(c, P, {}), h, index + 1, "push")

\* MainWindow._on_apply_color_to_group: the colour of every label of the group
\* is set on the TextItem objects themselves and the view refreshed; nothing
\* is pushed.  An AddTextCommand holds the same object as Project.text_items,
\* so its item shows the new colour too.
ApplyColorToGroup ==
    \E subtype \in {"corner", "numbering"}, color_hex \in {"#000000", "#FFFFFF"} :
        LET InGroup(t) == /\ t.scope = "cell"
                          /\ \/ subtype = "corner" /\ t.subtype = "corner"
                             \/ subtype = "numbering" /\ t.subtype # "corner"
            Recolor(t) == IF InGroup(t) THEN [t EXCEPT !.color = color_hex] ELSE t
            listed == {text_items[k].id : k \in 1..Len(text_items)}
        IN  /\ text_items' = [k \in 1..Len(text_items) |-> Recolor(text_items[k])]
            /\ hist' = [k \in 1..Len(hist) |->
                           IF hist[k].type = "AddText" /\ hist[k].item.id \in listed
                           THEN [hist[k] EXCEPT !.item = Recolor(@)] ELSE hist[k]]
            /\ rows' = RefreshLayout(rows)
            /\ last' = "edit"
            /\ UNCHANGED <<cells, index, detached, nextId, pushed, page, result,
                           files, current_project_path, windows, check, clean_index, marked>>

\* ---------------------------------------------------------------- Init
\* MainWindow._ensure_cells_exist on a project that has rows and no cells
EnsureCells(rs) ==
    LET slots == MissingSlots(rs, {})
    IN  [k \in 1..Len(slots) |-> GridPlaceholder(k, k, slots[k][1], slots[k][2])]

\* MainWindow._set_project on a project a session starts with, an opened file
\* with one row of one column or with one row of two columns whose
\* column_ratios are set: the cells ensured, the stack cleared, the layout
\* refreshed
Init ==
    \E rs \in {<<RowTemplate(0, 1)>>,
               <<[RowTemplate(0, 2) EXCEPT !.column_ratios = <<1, 2>>]>>} :
        /\ rows = RefreshLayout(rs)
        /\ cells = EnsureCells(rs)
        /\ text_items = <<>>
        /\ hist = <<>>
        /\ index = 0
        /\ detached = [o \in {} |-> NoCmd]
        /\ nextId = Len(EnsureCells(rs)) + 1
        /\ pushed = 0
        /\ last = "init"
        /\ page = DefaultPage
        /\ result = NoResult
        /\ Untitled

Next ==
    \/ InsertRow
    \/ DeleteRow
    \/ InsertCell
    \/ DeleteCell
    \/ ChangeRowCount
    \/ SplitCell
    \/ InsertSubCell
    \/ DeleteSubCell
    \/ WrapAndInsert
    \/ ChangeSubCellRatio
    \/ SwapCellDirection
    \/ CellSwapped
    \/ MultiCellsSwapped
    \/ DropImage
    \/ DeleteImage
    \/ ImportLayout
    \/ AddText
    \/ ApplyColorToGroup
    \/ Undo
    \/ Redo

Spec == Init /\ [][Next]_vars

\* the row and column commands with undo / redo
NextRows ==
    \/ InsertRow
    \/ DeleteRow
    \/ InsertCell
    \/ DeleteCell
    \/ ChangeRowCount
    \/ Undo
    \/ Redo

SpecRows == Init /\ [][NextRows]_vars

\* the row and column commands, ChangeRowCountCommand applied without the
\* test of its handler
NextRowCount ==
    \/ InsertRow
    \/ DeleteRow
    \/ InsertCell
    \/ DeleteCell
    \/ ChangeRowCountCommand
    \/ Undo
    \/ Redo

SpecRowCount == Init /\ [][NextRowCount]_vars

\* the handlers that push a PropertyChangeCommand and the image drop that
\* gives a cell its content, with undo / redo
NextProps ==
    \/ RowPropertyChanged
    \/ DropImage
    \/ DeleteImage
    \/ ImportLayout
    \/ Undo
    \/ Redo

SpecProps == Init /\ [][NextProps]_vars

\* the sub-cell commands with undo / redo
NextTree ==
    \/ SplitCell
    \/ InsertSubCell
    \/ DeleteSubCell
    \/ WrapAndInsert
    \/ ChangeSubCellRatio
    \/ Undo
    \/ Redo

SpecTree == Init /\ [][NextTree]_vars

\* all structural commands with undo / redo
NextStruct ==
    \/ InsertRow
    \/ DeleteRow
    \/ InsertCell
    \/ DeleteCell
    \/ ChangeRowCount
    \/ SplitCell
    \/ InsertSubCell
    \/ DeleteSubCell
    \/ WrapAndInsert
    \/ ChangeSubCellRatio
    \/ Undo
    \/ Redo

SpecStruct == Init /\ [][NextStruct]_vars


RECURSIVE ParentPathIn(_, _, _)
\* the place of the container Project.find_parent_of answers with, as the
\* indices that lead to it from the top-level list cs (looked at from position
\* k on); <<>> for None
ParentPathIn(cs, k, id) ==
    IF k > Len(cs) THEN <<>>
    ELSE LET node == cs[k]
             direct == {j \in 1..Len(node.children) : node.children[j].id = id}
             first == IF direct = {} THEN Len(node.children) + 1
                      ELSE CHOOSE j \in direct : \A i \in direct : j <= i
             before == ParentPathIn(SubSeq(node.children, 1, first - 1), 1, id)
         IN  IF before # <<>> THEN <<k>> \o before
             ELSE IF direct # {} THEN <<k>>
             ELSE ParentPathIn(cs, k + 1, id)

RECURSIVE CellAt(_, _)
\* the cell that the indices of path lead to from the list cs
CellAt(cs, path) ==
    IF Len(path) = 1 THEN cs[path[1]]
    ELSE CellAt(cs[path[1]].children, Tail(path))

\* a project of one cell on which WrapAndInsert was applied twice, the second
\* time to the new sibling: a container whose second child is a container
NestedProject ==
    LET rs == <<RowTemplate(0, 1)>>
        P0 == [rows |-> RefreshLayout(rs), cells |-> EnsureCells(rs),
               text_items |-> <<>>, detached |-> [o \in {} |-> NoCmd],
               nextId |-> Len(EnsureCells(rs)) + 1]
        P1 == WrapAndInsertRedo(P0, ObjsOf(P0.cells), 1, "horizontal", "after")
    IN  WrapAndInsertRedo(P1, ObjsOf(P1.cells), 2, "vertical", "after")

\* MainWindow._set_project on that project
InitNested ==
    /\ rows = NestedProject.rows
    /\ cells = NestedProject.cells
    /\ text_items = <<>>
    /\ hist = <<>>
    /\ index = 0
    /\ detached = [o \in {} |-> NoCmd]
    /\ nextId = NestedProject.nextId
    /\ pushed = 0
    /\ last = "init"
    /\ page = DefaultPage
    /\ result = NoResult
    /\ Untitled

\* the sub-cell commands on a project that has nested containers
SpecNested == InitNested /\ [][NextTree]_vars

\* the cells of an opened project of one row of two columns whose first cell
\* holds an image with edited content fields
ImageCells ==
    LET rs == <<RowTemplate(0, 2)>>
        cs == EnsureCells(rs)
    IN  [cs EXCEPT ![1] = [@ EXCEPT !.image_path = "a.png", !.is_placeholder = FALSE,
                                    !.fit_mode = "cover", !.rotation = 90,
                                    !.align_h = "left", !.padding_top = 0,
                                    !.scale_bar_enabled = TRUE]]

\* MainWindow._set_project on that project
InitImages ==
    /\ rows = RefreshLayout(<<RowTemplate(0, 2)>>)
    /\ cells = ImageCells
    /\ text_items = <<>>
    /\ hist = <<>>
    /\ index = 0
    /\ detached = [o \in {} |-> NoCmd]
    /\ nextId = Len(ImageCells) + 1
    /\ pushed = 0
    /\ last = "init"
    /\ page = DefaultPage
    /\ result = NoResult
    /\ Untitled

\* the sub-cell commands on a project that holds an image
SpecImages == InitImages /\ [][NextTree]_vars

\* opened projects for the swap handlers: one row of two columns, and two rows
\* of two columns, each with an image that has edited content fields
SwapProjects ==
    LET rs == <<RowTemplate(0, 2), RowTemplate(1, 2)>>
        cs == EnsureCells(rs)
        four == [cs EXCEPT ![1] = [@ EXCEPT !.image_path = "a.png",
                                            !.is_placeholder = FALSE,
                                            !.rotation = 90, !.align_h = "left"],
                           ![4] = [@ EXCEPT !.fit_mode = "cover", !.align_v = "top",
                                            !.padding_left = 0]]
    IN  {[rows |-> <<RowTemplate(0, 2)>>, cells |-> ImageCells],
         [rows |-> rs, cells |-> four]}

\* MainWindow._set_project on one of these projects
InitSwap ==
    \E p \in SwapProjects :
        /\ rows = RefreshLayout(p.rows)
        /\ cells = p.cells
        /\ text_items = <<>>
        /\ hist = <<>>
        /\ index = 0
        /\ detached = [o \in {} |-> NoCmd]
        /\ nextId = Len(p.cells) + 1
        /\ pushed = 0
        /\ last = "init"
        /\ page = DefaultPage
        /\ result = NoResult
        /\ Untitled

\* the swap handlers and the corner labels with undo / redo
NextSwap ==
    \/ SwapCellDirection
    \/ CellSwapped
    \/ MultiCellsSwapped
    \/ AddText
    \/ Undo
    \/ Redo

SpecSwap == InitSwap /\ [][NextSwap]_vars

\* MultiSwapCellsCommand on any lists, with undo / redo
NextMultiSwap ==
    \/ MultiSwapCellsCommand
    \/ Undo
    \/ Redo

SpecMultiSwap == InitSwap /\ [][NextMultiSwap]_vars

\* ------------------------------------------------------- layout engine
\* the list col_ratios of LayoutEngine._compute_col_widths before it is cut to
\* col_count entries: the row's own list, padded in place, when it is not empty
PaddedColRatios(r) ==
    IF r.column_ratios # <<>>
    THEN IF Len(r.column_ratios) < r.column_count
         THEN r.column_ratios \o [k \in 1..(r.column_count - Len(r.column_ratios)) |-> 1]
         ELSE r.column_ratios
    ELSE [k \in 1..r.column_count |-> 1]

\* LayoutEngine._compute_col_widths
ComputeColWidths(r, content_width, gap_mm) ==
    LET col_count == r.column_count
        total_horizontal_gaps == IF col_count > 1 THEN (col_count - 1) * gap_mm ELSE 0
        available_width == Num(content_width - total_horizontal_gaps)
        col_ratios == SubSeq(PaddedColRatios(r), 1, col_count)
        sum == FSum([k \in 1..col_count |-> Num(col_ratios[k])])
        total_ratio == IF FLe(sum, Num(0)) THEN Num(col_count) ELSE sum
    IN  IF col_count <= 0 THEN <<>>
        ELSE [k \in 1..col_count |->
                 FMul(FDiv(Num(col_ratios[k]), total_ratio), available_width)]

\* one assignment cell_rects[id] = rect or label_rects[id] = rect
Entry(dict, id, rect) == [dict |-> dict, id |-> id, rect |-> rect]

RECURSIVE LayoutSubcells(_, _, _)
RECURSIVE VerticalLoop(_, _, _, _, _)
RECURSIVE HorizontalLoop(_, _, _, _, _)

\* the loop over the children of a vertical split, from child i (counted from 1)
\* on, with current_y; s holds parent_rect, ratios, total_ratio and available
VerticalLoop(parent_cell, s, L, i, current_y) ==
    IF i > Len(parent_cell.children) THEN <<>>
    ELSE LET child == parent_cell.children[i]
             labelled == L.label_row_above /\ IsLeaf(child) /\ child.id \in L.labeled_cell_ids
             y == IF labelled THEN FAdd(current_y, FAdd(L.label_row_h, L.gap_mm))
                  ELSE current_y
             child_h == FMul(FDiv(s.ratios[i], s.total_ratio), s.available)
             child_rect == <<s.px, y, s.pw, child_h>>
         IN  (IF labelled
              THEN <<Entry("label_rects", child.id, <<s.px, current_y, s.pw, L.label_row_h>>)>>
              ELSE <<>>)
             \o <<Entry("cell_rects", child.id, child_rect)>>
             \o (IF ~IsLeaf(child) THEN LayoutSubcells(child, child_rect, L) ELSE <<>>)
             \o VerticalLoop(parent_cell, s, L, i + 1, FAdd(y, FAdd(child_h, L.gap_mm)))

\* HorizontalLoop, if it recorded a label rect above a labelled leaf child as
\* the loop over the children of a vertical split does
HorizontalLoopWithLabels(parent_cell, s, L, i, current_x) ==
    IF i > Len(parent_cell.children) THEN <<>>
    ELSE LET child == parent_cell.children[i]
             labelled == L.label_row_above /\ IsLeaf(child) /\ child.id \in L.labeled_cell_ids
             child_w == FMul(FDiv(s.ratios[i], s.total_ratio), s.available)
             child_rect == <<current_x, s.py, child_w, s.ph>>
         IN  (IF labelled
              THEN <<Entry("label_rects", child.id, <<current_x, s.py, child_w, L.label_row_h>>)>>
              ELSE <<>>)
             \o <<Entry("cell_rects", child.id, child_rect)>>
             \o (IF ~IsLeaf(child) THEN LayoutSubcells(child, child_rect, L) ELSE <<>>)
             \o HorizontalLoop(parent_cell, s, L, i + 1,
                               FAdd(current_x, FAdd(child_w, L.gap_mm)))

\* the loop over the children of a horizontal split, from child i on, with current_x
HorizontalLoop(parent_cell, s, L, i, current_x) ==
    IF i > Len(parent_cell.children) THEN <<>>
    ELSE LET child == parent_cell.children[i]
             child_w == FMul(FDiv(s.ratios[i], s.total_ratio), s.available)
             child_rect == <<current_x, s.py, child_w, s.ph>>
         IN  <<Entry("cell_rects", child.id, child_rect)>>
             \o (IF ~IsLeaf(child) THEN LayoutSubcells(child, child_rect, L) ELSE <<>>)
             \o HorizontalLoop(parent_cell, s, L, i + 1,
                               FAdd(current_x, FAdd(child_w, L.gap_mm)))

\* LayoutEngine._layout_subcells: the assignments it makes, in order
LayoutSubcells(parent_cell, parent_rect, L) ==
    LET children == parent_cell.children
        n == Len(children)
        own == parent_cell.split_ratios
        ratios == [k \in 1..n |-> IF own # <<>> /\ k <= Len(own) THEN Num(own[k]) ELSE Num(1)]
        sum == FSum(ratios)
        total_ratio == IF FLe(sum, Num(0)) THEN Num(n) ELSE sum
        total_gap == IF n > 1 THEN FMul(Num(n - 1), L.gap_mm) ELSE Num(0)
        label_space ==
            IF L.label_row_above
            THEN FSum([k \in 1..n |->
                         IF IsLeaf(children[k]) /\ children[k].id \in L.labeled_cell_ids
                         THEN FAdd(L.label_row_h, L.gap_mm) ELSE Num(0)])
            ELSE Num(0)
        v_available == FMax(Num(0), FSub(FSub(parent_rect[4], total_gap), label_space))
        h_available == FMax(Num(0), FSub(parent_rect[3], total_gap))
        s == [px |-> parent_rect[1], py |-> parent_rect[2],
              pw |-> parent_rect[3], ph |-> parent_rect[4],
              ratios |-> ratios, total_ratio |-> total_ratio,
              available |-> IF parent_cell.split_direction = "vertical"
                            THEN v_available ELSE h_available]
    IN  IF n = 0 THEN <<>>
        ELSE IF parent_cell.split_direction = "vertical"
        THEN VerticalLoop(parent_cell, s, L, 1, parent_rect[2])
        ELSE IF parent_cell.split_direction = "horizontal"
        THEN HorizontalLoop(parent_cell, s, L, 1, parent_rect[1])
        ELSE <<>>

RECURSIVE RowGeometries(_, _, _, _)
\* RowGeometries, if the picture row followed its label row without a gap
RowGeometriesNoLabelGap(row_templates, G, i, current_y) ==
    IF i > Len(row_templates) THEN <<>>
    ELSE LET r_temp == row_templates[i]
             ratio == IF FLt(Num(0), G.total_ratio) THEN Num(r_temp.height_ratio)
                      ELSE Num(1)
             pic_h == FMul(FDiv(ratio, G.total_ratio), G.available_height_for_rows)
             labelled == G.label_row_above /\ r_temp.index \in G.rows_with_labels
             pic_y == IF labelled THEN FAdd(current_y, G.label_row_h) ELSE current_y
         IN  <<[lbl_y |-> IF labelled THEN current_y ELSE <<>>,
                lbl_h |-> IF labelled THEN G.label_row_h ELSE Num(0),
                pic_y |-> pic_y, pic_h |-> pic_h, r_temp |-> r_temp]>>
             \o RowGeometries(row_templates, G, i + 1,
                              FAdd(pic_y, FAdd(pic_h, G.gap_mm)))

\* step 3 of calculate_layout, from row i of the sorted row_templates on, with
\* current_y: the list calculated_row_geometries; lbl_y is <<>> for None
RowGeometries(row_templates, G, i, current_y) ==
    IF i > Len(row_templates) THEN <<>>
    ELSE LET r_temp == row_templates[i]
             ratio == IF FLt(Num(0), G.total_ratio) THEN Num(r_temp.height_ratio)
                      ELSE Num(1)
             pic_h == FMul(FDiv(ratio, G.total_ratio), G.available_height_for_rows)
             labelled == G.label_row_above /\ r_temp.index \in G.rows_with_labels
             pic_y == IF labelled THEN FAdd(current_y, FAdd(G.label_row_h, G.gap_mm))
                      ELSE current_y
         IN  <<[lbl_y |-> IF labelled THEN current_y ELSE <<>>,
                lbl_h |-> IF labelled THEN G.label_row_h ELSE Num(0),
                pic_y |-> pic_y, pic_h |-> pic_h, r_temp |-> r_temp]>>
             \o RowGeometries(row_templates, G, i + 1,
                              FAdd(pic_y, FAdd(pic_h, G.gap_mm)))

RECURSIVE XPos(_, _, _, _)
\* x_pos of column col_index: margin_left_mm plus the widths and gaps before it
XPos(margin_left_mm, col_widths, gap_mm, col_index) ==
    IF col_index = 0 THEN margin_left_mm
    ELSE FAdd(XPos(margin_left_mm, col_widths, gap_mm, col_index - 1),
              FAdd(col_widths[col_index], gap_mm))

RECURSIVE CellEntries(_, _, _, _, _)
\* step 4 of calculate_layout for one row: the loop over row_cells from cell j on
CellEntries(row_cells, g, col_widths, L, j) ==
    IF j > Len(row_cells) THEN <<>>
    ELSE LET cell == row_cells[j]
             x_pos == XPos(L.margin_left_mm, col_widths, L.gap_mm, cell.col_index)
             col_w == col_widths[cell.col_index + 1]
             rect == <<x_pos, g.pic_y, col_w, g.pic_h>>
         IN  (IF cell.col_index >= g.r_temp.column_count THEN <<>>
              ELSE <<Entry("cell_rects", cell.id, rect)>>
                   \o (IF /\ L.label_row_above /\ g.lbl_y # <<>>
                          /\ cell.id \in L.labeled_cell_ids /\ IsLeaf(cell)
                       THEN <<Entry("label_rects", cell.id, <<x_pos, g.lbl_y, col_w, g.lbl_h>>)>>
                       ELSE <<>>)
                   \o (IF ~IsLeaf(cell) THEN LayoutSubcells(cell, rect, L) ELSE <<>>))
             \o CellEntries(row_cells, g, col_widths, L, j + 1)

RECURSIVE RowEntries(_, _, _, _, _)
\* step 4 of calculate_layout: the loop over calculated_row_geometries from i on
RowEntries(geoms, cs, content_width, L, i) ==
    IF i > Len(geoms) THEN <<>>
    ELSE LET g == geoms[i]
             InRow(c) == c.row_index = g.r_temp.index
             col_widths == ComputeColWidths(g.r_temp, content_width, L.gap_int)
         IN  (IF g.r_temp.column_count <= 0 THEN <<>>
              ELSE CellEntries(SelectSeq(cs, InRow), g, col_widths, L, 1))
             \o RowEntries(geoms, cs, content_width, L, i + 1)

\* the dict that a list of assignments builds: the last assignment to a key stays
DictOf(entries, dict) ==
    LET at == {k \in 1..Len(entries) : entries[k].dict = dict}
    IN  [id \in {entries[k].id : k \in at} |->
            entries[CHOOSE k \in at : /\ entries[k].id = id
                                      /\ \A j \in at : entries[j].id = id => j <= k].rect]

\* calculate_layout, if it returned early only for a content height <= 0
CalculateLayoutNoWidthCheck(P, pg) ==
    LET gap_mm == Num(pg.gap_mm)
        content_width == pg.page_width_mm - pg.margin_left_mm - pg.margin_right_mm
        content_height == pg.page_height_mm - pg.margin_top_mm - pg.margin_bottom_mm
        row_templates == SortRows(P.rows)
        num_rows == Len(row_templates)
        label_row_above == pg.label_placement = "label_row_above"
        label_row_h == IF ~label_row_above THEN Num(0)
                       ELSE IF pg.label_row_height > 0 THEN Num(pg.label_row_height)
                       ELSE LabelRowHeightMm(pg)
        labeled_cell_ids ==
            IF label_row_above
            THEN {P.text_items[k].parent_id : k \in
                     {j \in 1..Len(P.text_items) :
                         /\ P.text_items[j].scope = "cell"
                         /\ P.text_items[j].subtype # "corner"
                         /\ P.text_items[j].parent_id # 0}}
            ELSE {}
        rows_with_labels ==
            {P.cells[k].row_index : k \in
                {j \in 1..Len(P.cells) : P.cells[j].id \in labeled_cell_ids}}
        num_label_rows == IF label_row_above THEN Cardinality(rows_with_labels) ELSE 0
        total_vertical_gaps ==
            FAdd(IF num_rows > 1 THEN FMul(Num(num_rows - 1), gap_mm) ELSE Num(0),
                 IF num_label_rows > 0 THEN FMul(Num(num_label_rows), gap_mm) ELSE Num(0))
        total_label_height ==
            IF num_label_rows > 0 THEN FMul(Num(num_label_rows), label_row_h) ELSE Num(0)
        available_height_for_rows ==
            FMax(Num(0), FSub(FSub(Num(content_height), total_vertical_gaps),
                              total_label_height))
        sum == FSum([k \in 1..num_rows |-> Num(row_templates[k].height_ratio)])
        total_ratio == IF sum = Num(0) THEN Num(num_rows) ELSE sum
        G == [total_ratio |-> total_ratio,
              available_height_for_rows |-> available_height_for_rows,
              label_row_above |-> label_row_above, rows_with_labels |-> rows_with_labels,
              label_row_h |-> label_row_h, gap_mm |-> gap_mm]
        geoms == RowGeometries(row_templates, G, 1, Num(pg.margin_top_mm))
        L == [gap_mm |-> gap_mm, gap_int |-> pg.gap_mm,
              margin_left_mm |-> Num(pg.margin_left_mm),
              labeled_cell_ids |-> labeled_cell_ids,
              label_row_above |-> label_row_above, label_row_h |-> label_row_h]
        entries == RowEntries(geoms, P.cells, content_width, L, 1)
        cell_rects == DictOf(entries, "cell_rects")
        LastOf(idx) == CHOOSE k \in 1..num_rows :
                           /\ geoms[k].r_temp.index = idx
                           /\ \A j \in 1..num_rows : geoms[j].r_temp.index = idx => j <= k
        indices == {row_templates[k].index : k \in 1..num_rows}
    IN  IF content_height <= 0 THEN EmptyLayoutResult
        ELSE IF num_rows = 0 THEN EmptyLayoutResult
        ELSE [cell_rects |-> cell_rects,
              row_heights |-> [idx \in indices |-> geoms[LastOf(idx)].pic_h],
              figure_rects |-> cell_rects,
              label_rects |-> DictOf(entries, "label_rects"),
              row_rects |->
                 [idx \in indices |->
                     LET g == geoms[LastOf(idx)]
                     IN  IF g.lbl_y # <<>>
                         THEN <<Num(pg.margin_left_mm), g.lbl_y, Num(content_width),
                                FAdd(FSub(g.pic_y, g.lbl_y), g.pic_h)>>
                         ELSE <<Num(pg.margin_left_mm), g.pic_y, Num(content_width),
                                g.pic_h>>]]

\* LayoutEngine.calculate_layout: the LayoutResult it returns (a parent_id of
\* None is written 0)
CalculateLayout(P, pg) ==
    LET gap_mm == Num(pg.gap_mm)
        content_width == pg.page_width_mm - pg.margin_left_mm - pg.margin_right_mm
        content_height == pg.page_height_mm - pg.margin_top_mm - pg.margin_bottom_mm
        row_templates == SortRows(P.rows)
        num_rows == Len(row_templates)
        label_row_above == pg.label_placement = "label_row_above"
        label_row_h == IF ~label_row_above THEN Num(0)
                       ELSE IF pg.label_row_height > 0 THEN Num(pg.label_row_height)
                       ELSE LabelRowHeightMm(pg)
        labeled_cell_ids ==
            IF label_row_above
            THEN {P.text_items[k].parent_id : k \in
                     {j \in 1..Len(P.text_items) :
                         /\ P.text_items[j].scope = "cell"
                         /\ P.text_items[j].subtype # "corner"
                         /\ P.text_items[j].parent_id # 0}}
            ELSE {}
        rows_with_labels ==
            {P.cells[k].row_index : k \in
                {j \in 1..Len(P.cells) : P.cells[j].id \in labeled_cell_ids}}
        num_label_rows == IF label_row_above THEN Cardinality(rows_with_labels) ELSE 0
        total_vertical_gaps ==
            FAdd(IF num_rows > 1 THEN FMul(Num(num_rows - 1), gap_mm) ELSE Num(0),
                 IF num_label_rows > 0 THEN FMul(Num(num_label_rows), gap_mm) ELSE Num(0))
        total_label_height ==
            IF num_label_rows > 0 THEN FMul(Num(num_label_rows), label_row_h) ELSE Num(0)
        available_height_for_rows ==
            FMax(Num(0), FSub(FSub(Num(content_height), total_vertical_gaps),
                              total_label_height))
        sum == FSum([k \in 1..num_rows |-> Num(row_templates[k].height_ratio)])
        total_ratio == IF sum = Num(0) THEN Num(num_rows) ELSE sum
        G == [total_ratio |-> total_ratio,
              available_height_for_rows |-> available_height_for_rows,
              label_row_above |-> label_row_above, rows_with_labels |-> rows_with_labels,
              label_row_h |-> label_row_h, gap_mm |-> gap_mm]
        geoms == RowGeometries(row_templates, G, 1, Num(pg.margin_top_mm))
        L == [gap_mm |-> gap_mm, gap_int |-> pg.gap_mm,
              margin_left_mm |-> Num(pg.margin_left_mm),
              labeled_cell_ids |-> labeled_cell_ids,
              label_row_above |-> label_row_above, label_row_h |-> label_row_h]
        entries == RowEntries(geoms, P.cells, content_width, L, 1)
        cell_rects == DictOf(entries, "cell_rects")
        LastOf(idx) == CHOOSE k \in 1..num_rows :
                           /\ geoms[k].r_temp.index = idx
                           /\ \A j \in 1..num_rows : geoms[j].r_temp.index = idx => j <= k
        indices == {row_templates[k].index : k \in 1..num_rows}
    IN  IF content_width <= 0 \/ content_height <= 0 THEN EmptyLayoutResult
        ELSE IF num_rows = 0 THEN EmptyLayoutResult
        ELSE [cell_rects |-> cell_rects,
              row_heights |-> [idx \in indices |-> geoms[LastOf(idx)].pic_h],
              figure_rects |-> cell_rects,
              label_rects |-> DictOf(entries, "label_rects"),
              row_rects |->
                 [idx \in indices |->
                     LET g == geoms[LastOf(idx)]
                     IN  IF g.lbl_y # <<>>
                         THEN <<Num(pg.margin_left_mm), g.lbl_y, Num(content_width),
                                FAdd(FSub(g.pic_y, g.lbl_y), g.pic_h)>>
                         ELSE <<Num(pg.margin_left_mm), g.pic_y, Num(content_width),
                                g.pic_h>>]]

\* the rows of the Project after calculate_layout: _compute_col_widths pads a
\* non-empty column_ratios list that is shorter than column_count in place
RowsAfterLayout(P, pg) ==
    IF \/ pg.page_width_mm - pg.margin_left_mm - pg.margin_right_mm <= 0
       \/ pg.page_height_mm - pg.margin_top_mm - pg.margin_bottom_mm <= 0
    THEN P.rows
    ELSE [k \in 1..Len(P.rows) |-> PadRatios(P.rows[k])]

\* ------------------------------------------- calculate_layout on its own
\* The projects calculate_layout is examined on: no row, rows with equal,
\* unequal, short, long and zero ratios, a first cell that is a leaf, a
\* container of either direction or a nested container, with and without a
\* numbering label.
LayoutRows ==
    {<<>>,
     <<RowTemplate(0, 1)>>,
     <<[RowTemplate(0, 1) EXCEPT !.column_ratios = <<1, 2>>]>>,
     <<RowTemplate(0, 1), RowTemplate(1, 1)>>,
     <<RowTemplate(0, 2)>>,
     <<[RowTemplate(0, 2) EXCEPT !.column_ratios = <<1, 2>>]>>,
     <<[RowTemplate(0, 2) EXCEPT !.column_ratios = <<2>>]>>,
     <<[RowTemplate(0, 2) EXCEPT !.column_ratios = <<0, 0>>]>>,
     <<[RowTemplate(0, 3) EXCEPT !.column_ratios = <<5, 1, 1>>]>>,
     <<RowTemplate(0, 1), [RowTemplate(1, 2) EXCEPT !.height_ratio = 2]>>,
     <<[RowTemplate(0, 1) EXCEPT !.height_ratio = 0],
       [RowTemplate(1, 1) EXCEPT !.height_ratio = 0]>>}

\* a cell turned into a container of the two placeholders with ids i and i + 1
ContainerOf(c, direction, ratios, i) ==
    [c EXCEPT !.is_placeholder = FALSE, !.split_direction = direction,
              !.split_ratios = ratios,
              !.children = <<Placeholder(i, i), Placeholder(i + 1, i + 1)>>]

\* the cell trees over the rows rs: every slot holds a placeholder; the first
\* cell is a leaf, a container, or a container whose second child is a
\* container of the other direction; or the list holds one more cell, in a
\* column or in a row that the rows do not have
LayoutCells(rs) ==
    LET cs == EnsureCells(rs)
        n == Len(cs)
        Other(d) == IF d = "vertical" THEN "horizontal" ELSE "vertical"
        flat == {ContainerOf(cs[1], d, r, n + 1) : d \in Directions,
                    r \in {<<1, 1>>, <<1, 2>>, <<1>>, <<0, 0>>}}
        nested == {[ContainerOf(cs[1], d, <<1, 1>>, n + 1) EXCEPT
                       !.children[2] = ContainerOf(@, Other(d), <<1, 2>>, n + 3)] :
                   d \in Directions}
        outside == {Append(cs, GridPlaceholder(n + 1, n + 1, 0, rs[1].column_count)),
                    Append(cs, GridPlaceholder(n + 1, n + 1, Len(rs), 0))}
    IN  IF n = 0 THEN {cs}
        ELSE {cs} \cup {[cs EXCEPT ![1] = c] : c \in flat \cup nested} \cup outside

\* no label, or one numbering label (subtype None) or corner label on a cell
\* of the tree
LayoutTextItems(cs) ==
    {<<>>} \cup {<<TextItem(Len(AllCells(cs)) + 1, st, id)>> :
                    st \in {NULL, "corner"}, id \in IdsOf(cs)}

\* page settings within the ranges of the inspector: the default page, a page
\* with a content area of 10 mm x 10 mm, a page whose content area is 0 x 0 and
\* a page whose content width is negative (-10 mm), a gap
\* of 2 mm or 20 mm, labels in the cells or in rows above, whose height is
\* derived from the font size (label_row_height 0) or set to 8 mm
LayoutPages ==
    {[DefaultPage EXCEPT !.page_width_mm = d[1], !.page_height_mm = d[2],
                         !.margin_left_mm = d[3], !.margin_right_mm = d[3],
                         !.margin_top_mm = d[3], !.margin_bottom_mm = d[3],
                         !.gap_mm = g, !.label_placement = lp[1],
                         !.label_row_height = lp[2]] :
        d \in {<<210, 297, 10>>, <<20, 20, 5>>, <<10, 10, 5>>, <<10, 297, 10>>},
        g \in {2, 20},
        lp \in {<<"in_cell", 0>>, <<"label_row_above", 0>>, <<"label_row_above", 8>>}}

\* a project as loaded from a file, before any layout
InitLayout ==
    \E rs \in LayoutRows :
        \E cs \in LayoutCells(rs) :
            \E ts \in LayoutTextItems(cs), pg \in LayoutPages :
                /\ rows = rs
                /\ cells = cs
                /\ text_items = ts
                /\ page = pg
                /\ result = NoResult
                /\ Untitled
                /\ hist = <<>>
                /\ index = 0
                /\ detached = [o \in {} |-> NoCmd]
                /\ nextId = Len(AllCells(cs)) + Len(ts) + 1
                /\ pushed = 0
                /\ last = "init"

\* LayoutEngine.calculate_layout(project) called on the current project
CalculateLayoutCall ==
    /\ result' = [called |-> TRUE,
                  before |-> [rows |-> rows, cells |-> cells,
                              text_items |-> text_items, page |-> page],
                  value |-> CalculateLayout(CurP, page)]
    /\ rows' = RowsAfterLayout(CurP, page)
    /\ last' = "layout"
    /\ UNCHANGED <<cells, text_items, hist, index, detached, nextId, pushed, page,
                   files, current_project_path, windows, check, clean_index, marked>>

NextLayout == CalculateLayoutCall

SpecLayout == InitLayout /\ [][NextLayout]_vars



\* ------------------------------------------------------ auto layout: use
\* MainWindow._on_auto_layout, on a project whose optimised values are whole
\* numbers
AutoLayout ==
    /\ OptimizeLayout(CurP, page).whole
    /\ Push([Capture(CurP, [NoCmd EXCEPT !.type = "AutoLayout"]) EXCEPT
                !.old_rows = rows, !.old_page_height = page.page_height_mm])

\* MainWindow._set_project on an opened project of a page 260 mm wide: one
\* row of two columns or two rows of one column; the first cell is split in
\* two with ratios 2 : 1, the leaves hold a square image, a wide one, or none, and the last
\* cell may be rotated
InitAutoLayout ==
    \E rs \in {<<[RowTemplate(0, 2) EXCEPT !.column_ratios = cr]>> : cr \in {<<>>, <<1, 2>>}}
              \cup {<<RowTemplate(0, 1), [RowTemplate(1, 1) EXCEPT !.height_ratio = 2]>>},
       d \in Directions, rot \in {0, 90},
       img \in [1..3 -> {NULL, "a.png", "wide.png"}] :
        LET cs == EnsureCells(rs)
            With(c, path) == IF path = NULL THEN c
                             ELSE [c EXCEPT !.image_path = path, !.is_placeholder = FALSE]
            box == ContainerOf(cs[1], d, <<2, 1>>, 3)
            project == <<[box EXCEPT !.children = <<With(@[1], img[1]), With(@[2], img[2])>>],
                         [With(cs[2], img[3]) EXCEPT !.rotation = rot]>>
        IN  /\ rows = RefreshLayout(rs)
            /\ cells = project
            /\ text_items = <<>>
            /\ hist = <<>>
            /\ index = 0
            /\ detached = [o \in {} |-> NoCmd]
            /\ nextId = 5
            /\ pushed = 0
            /\ last = "init"
            /\ page = [DefaultPage EXCEPT !.page_width_mm = 260]
            /\ result = NoResult
            /\ Untitled

NextAutoLayout ==
    \/ AutoLayout
    \/ Undo
    \/ Redo

SpecAutoLayout == InitAutoLayout /\ [][NextAutoLayout]_vars

\* ------------------------------------------------------ label rows: use
\* MainWindow._ctx_add_numbering_label(cell_id), which the context menu offers
\* for a cell without a numbering label, on a project in label_row_above mode
\* (in in_cell mode the handler first pushes the command that switches the
\* mode): a TextItem without subtype is added for the cell
AddNumberingLabel ==
    \E id \in LeafIds :
        LET item == TextItem(nextId, NULL, id)
            P == [CurP EXCEPT !.nextId = @ + 1]
            c == Capture(CurP, [NoCmd EXCEPT !.type = "AddText", !.item = item])
            h == Append(SubSeq(hist, 1, index), c)
        IN  /\ page.label_placement = "label_row_above"
            /\ \A k \in 1..Len(text_items) :
                  ~(/\ text_items[k].scope = "cell"
                    /\ text_items[k].subtype # "corner"
                    /\ text_items[k].parent_id = id)
            /\ pushed < MaxCmds
            /\ Commit(CurP, Apply(c, P, {}), h, index + 1, "push")

\* MainWindow._set_project on an opened project in label_row_above mode, with
\* a label row height derived from the font size or set to 8 mm: one row of
\* one or two columns or two rows of one column, without a label or with a
\* numbering label on the first cell
InitLabels ==
    \E rs \in {<<RowTemplate(0, 1)>>, <<RowTemplate(0, 2)>>,
               <<RowTemplate(0, 1), RowTemplate(1, 1)>>},
       h \in {0, 8}, labelled \in BOOLEAN :
        LET cs == EnsureCells(rs)
            ts == IF labelled THEN <<TextItem(Len(cs) + 1, NULL, 1)>> ELSE <<>>
        IN  /\ rows = RefreshLayout(rs)
            /\ cells = cs
            /\ text_items = ts
            /\ hist = <<>>
            /\ index = 0
            /\ detached = [o \in {} |-> NoCmd]
            /\ nextId = Len(cs) + Len(ts) + 1
            /\ pushed = 0
            /\ last = "init"
            /\ page = [DefaultPage EXCEPT !.label_placement = "label_row_above",
                                          !.label_row_height = h]
            /\ result = NoResult
            /\ Untitled

NextLabels ==
    \/ AddNumberingLabel
    \/ SplitCell
    \/ WrapAndInsert
    \/ CalculateLayoutCall

SpecLabels == InitLabels /\ [][NextLabels]_vars

\* ------------------------------------------------- windows and saved files
\* project, stack and path of the window in use, as kept while another
\* window is in use
ThisWindow ==
    [rows |-> rows, cells |-> cells, text_items |-> text_items, hist |-> hist,
     index |-> index, detached |-> detached, page |-> page,
     current_project_path |-> current_project_path, clean_index |-> clean_index,
     marked |-> marked]

\* MainWindow._on_save_project: the path of the project, or the one chosen in
\* the dialog of _on_save_project_as when it has none; _save_project_to_path
\* then calls Project.save_to_file(path), keeps the path and calls
\* undo_stack.setClean().  A window opened by _on_open_nested_layout then has
\* the window that opened it refresh its layout (_save_and_refresh)
SaveProject ==
    \E path \in IF current_project_path = NULL THEN DOMAIN files
                ELSE {current_project_path} :
        LET opener == windows.parent[windows.focus]
        IN  /\ NormPath(path) \in DOMAIN files
            /\ files' = [files EXCEPT ![NormPath(path)] = LayoutFile(CurP, page)]
            /\ current_project_path' = path
            /\ clean_index' = index
            /\ marked' = [at |-> index, cut |-> FALSE]
            /\ windows' = IF opener \in DOMAIN windows.parked
                          THEN [windows EXCEPT !.parked[opener].rows = RefreshLayout(@)]
                          ELSE windows
            /\ last' = "save"
            /\ UNCHANGED <<rows, cells, text_items, hist, index, detached, nextId,
                           pushed, page, result, check>>

\* MainWindow._maybe_save, as far as it lets its caller go on: the disks it
\* can leave.  A clean stack asks nothing; otherwise the answer Discard
\* leaves the disk as it is and the answer Save runs _on_save_project
MaybeSave ==
    IF clean_index = index THEN {files}
    ELSE {files} \cup
         {[files EXCEPT ![NormPath(path)] = LayoutFile(CurP, page)] :
             path \in IF current_project_path = NULL THEN DOMAIN files
                      ELSE {current_project_path} \cap DOMAIN files}

\* MainWindow._on_new_project: _maybe_save, then _set_project on a Project of
\* two rows of two columns: the cells ensured, undo_stack.clear(), no path.
\* No object of the replaced project is referred to any more, so the uuids of
\* the new cells are numbered from 1 again
NewProject ==
    \E F \in MaybeSave :
        LET rs == <<RowTemplate(0, 2), RowTemplate(1, 2)>>
            opener == windows.parent[windows.focus]
        IN  /\ rows' = RefreshLayout(rs)
            /\ cells' = EnsureCells(rs)
            /\ text_items' = <<>>
            /\ nextId' = Len(EnsureCells(rs)) + 1
            /\ hist' = <<>>
            /\ index' = 0
            /\ clean_index' = 0
            /\ marked' = [at |-> 0, cut |-> FALSE]
            /\ detached' = [o \in {} |-> NoCmd]
            /\ page' = DefaultPage
            /\ current_project_path' = NULL
            /\ files' = F
            /\ windows' = IF F # files /\ opener \in DOMAIN windows.parked
                          THEN [windows EXCEPT !.parked[opener].rows = RefreshLayout(@)]
                          ELSE windows
            /\ last' = "new"
            /\ UNCHANGED <<pushed, result, check>>

\* MainWindow._on_open_project of a layout file the dialog shows: _maybe_save,
\* Project.load_from_file(path), then _set_project(project, path): the cells
\* ensured, undo_stack.clear(), the path kept
OpenProject ==
    \E F \in MaybeSave :
        \E path \in {q \in DOMAIN F : F[q].kind = "layout"} :
            LET file == F[path]
                n == Len(AllCells(file.cells))
                loaded == [rows |-> file.rows, cells |-> Retag(file.cells, Fresh({}, n)),
                           text_items |-> file.text_items,
                           detached |-> [o \in {} |-> NoCmd], nextId |-> nextId]
                Q == EnsureCellsExist(loaded, ObjsOf(loaded.cells))
                opener == windows.parent[windows.focus]
            IN  /\ Bounded(Q)
                /\ rows' = RefreshLayout(Q.rows)
                /\ cells' = Q.cells
                /\ text_items' = Q.text_items
                /\ nextId' = Q.nextId
                /\ hist' = <<>>
                /\ index' = 0
                /\ clean_index' = 0
                /\ marked' = [at |-> 0, cut |-> FALSE]
                /\ detached' = [o \in {} |-> NoCmd]
                /\ page' = file.page
                /\ current_project_path' = path
                /\ files' = F
                /\ windows' = IF F # files /\ opener \in DOMAIN windows.parked
                              THEN [windows EXCEPT !.parked[opener].rows = RefreshLayout(@)]
                              ELSE windows
                /\ last' = "load"
                /\ UNCHANGED <<pushed, result, check>>

\* cell insertion and image drop with undo / redo, and the file menu: save,
\* new and open
NextHistory ==
    \/ InsertCell
    \/ DropImage
    \/ Undo
    \/ Redo
    \/ SaveProject
    \/ NewProject
    \/ OpenProject

SpecHistory == Init /\ [][NextHistory]_vars

\* MainWindow._on_open_nested_layout(cell_id, figlayout_path), after a double
\* click on a cell that shows a nested layout: Project.load_from_file, a new
\* MainWindow, _set_project(project, figlayout_path); the new window is in use
OpenNestedLayout ==
    \E id \in LeafIds :
        LET cell == GetObj(cells, FindCellById(cells, id))
            figlayout_path == cell.nested_layout_path
            file == FileAt(files, figlayout_path)
            n == Len(AllCells(file.cells))
            loaded == [rows |-> file.rows, cells |-> Retag(file.cells, Fresh({}, n)),
                       text_items |-> file.text_items,
                       detached |-> [o \in {} |-> NoCmd], nextId |-> nextId]
            Q == EnsureCellsExist(loaded, ObjsOf(loaded.cells))
        IN  /\ Len(windows.parent) < MaxWindows
            /\ figlayout_path # NULL
            /\ file.kind = "layout"
            /\ Bounded(Q)
            /\ rows' = RefreshLayout(Q.rows)
            /\ cells' = Q.cells
            /\ text_items' = Q.text_items
            /\ nextId' = Q.nextId
            /\ hist' = <<>>
            /\ index' = 0
            /\ detached' = [o \in {} |-> NoCmd]
            /\ page' = file.page
            /\ current_project_path' = figlayout_path
            /\ clean_index' = 0
            /\ marked' = [at |-> 0, cut |-> FALSE]
            /\ windows' = [focus |-> Len(windows.parent) + 1,
                           parent |-> Append(windows.parent, windows.focus),
                           parked |-> [w \in DOMAIN windows.parked \cup {windows.focus} |->
                                          IF w = windows.focus THEN ThisWindow
                                          ELSE windows.parked[w]]]
            /\ last' = "open"
            /\ UNCHANGED <<pushed, result, files, check>>

\* the user turns to another open window
SwitchWindow ==
    \E w \in DOMAIN windows.parked :
        /\ rows' = windows.parked[w].rows
        /\ cells' = windows.parked[w].cells
        /\ text_items' = windows.parked[w].text_items
        /\ hist' = windows.parked[w].hist
        /\ index' = windows.parked[w].index
        /\ detached' = windows.parked[w].detached
        /\ page' = windows.parked[w].page
        /\ current_project_path' = windows.parked[w].current_project_path
        /\ clean_index' = windows.parked[w].clean_index
        /\ marked' = windows.parked[w].marked
        /\ windows' = [windows EXCEPT
                          !.focus = w,
                          !.parked = [v \in (DOMAIN @ \ {w}) \cup {windows.focus} |->
                                         IF v = windows.focus THEN ThisWindow ELSE @[v]]]
        /\ last' = "switch"
        /\ UNCHANGED <<nextId, pushed, result, files, check>>

\* two layout files without references on disk, the first one opened
InitRefs ==
    /\ files = [p \in {"/d/a.figlayout", "/d/b.figlayout"} |-> PlainFile]
    /\ current_project_path = "/d/a.figlayout"
    /\ windows = [focus |-> 1, parent |-> <<0>>, parked |-> <<>>]
    /\ check = NoCheck
    /\ clean_index = 0
    /\ marked = [at |-> 0, cut |-> FALSE]
    /\ rows = RefreshLayout(PlainFile.rows)
    /\ cells = Retag(PlainFile.cells, <<1>>)
    /\ text_items = <<>>
    /\ hist = <<>>
    /\ index = 0
    /\ detached = [o \in {} |-> NoCmd]
    /\ nextId = 2
    /\ pushed = 0
    /\ last = "init"
    /\ page = DefaultPage
    /\ result = NoResult

\* Import Layout, save, undo and redo in the windows of nested layouts
NextRefs ==
    \/ ImportLayout
    \/ Undo
    \/ Redo
    \/ SaveProject
    \/ OpenNestedLayout
    \/ SwitchWindow

SpecRefs == InitRefs /\ [][NextRefs]_vars

\* ------------------------------------ detect_circular_reference on its own
\* The paths of three layout files of one directory; "/d/./a.figlayout" is a
\* second spelling of the first
CyclePaths == {"/d/a.figlayout", "/d/b.figlayout", "/d/c.figlayout"}

\* what a file can be: missing, unreadable, not a JSON object, or a layout with
\* no reference, one reference, two references in two top-level cells (to the
\* same file or to two files), or one reference held by a sub-cell
CycleFiles ==
    LET \* a leaf cell of column col that refers to the layout file q
        NestedCell(i, col, q) ==
            [GridPlaceholder(0, i, 0, col) EXCEPT !.is_placeholder = FALSE,
                                                  !.nested_layout_path = q]
        \* a layout file with one row whose top-level cells are cs
        FileOfCells(cs) ==
            LayoutFile([rows |-> <<RowTemplate(0, Len(cs))>>, cells |-> cs,
                        text_items |-> <<>>], DefaultPage)
    IN  {MissingFile, [MissingFile EXCEPT !.kind = "unreadable"],
         [MissingFile EXCEPT !.kind = "not_object"], PlainFile}
            \cup {FileOfCells(<<NestedCell(1, 0, q)>>) :
                     q \in CyclePaths \cup {"/d/./a.figlayout"}}
            \cup {FileOfCells(<<NestedCell(1, 0, q[1]), NestedCell(2, 1, q[2])>>) :
                     q \in CyclePaths \X CyclePaths}
            \cup {FileOfCells(<<[GridPlaceholder(0, 1, 0, 0) EXCEPT
                                    !.is_placeholder = FALSE,
                                    !.split_direction = "horizontal",
                                    !.split_ratios = <<1, 1>>,
                                    !.children = <<NestedCell(2, 0, q), Placeholder(0, 3)>>]>>) :
                     q \in CyclePaths}

\* a disk on which /d/a.figlayout is a layout without references and the two
\* other files are anything
InitCycle ==
    \E fb \in CycleFiles, fc \in CycleFiles :
        /\ files = [p \in CyclePaths |->
                       IF p = "/d/a.figlayout" THEN PlainFile
                       ELSE IF p = "/d/b.figlayout" THEN fb ELSE fc]
        /\ current_project_path = "/d/a.figlayout"
        /\ windows = [focus |-> 1, parent |-> <<0>>, parked |-> <<>>]
        /\ check = NoCheck
        /\ clean_index = 0
        /\ marked = [at |-> 0, cut |-> FALSE]
        /\ rows = PlainFile.rows
        /\ cells = Retag(PlainFile.cells, <<1>>)
        /\ text_items = <<>>
        /\ hist = <<>>
        /\ index = 0
        /\ detached = [o \in {} |-> NoCmd]
        /\ nextId = 2
        /\ pushed = 0
        /\ last = "init"
        /\ page = DefaultPage
        /\ result = NoResult

\* detect_circular_reference(parent_path, candidate_path) called on the disk
DetectCircularReferenceCall ==
    \E parent_path \in {"/d/a.figlayout", "/d/./a.figlayout"},
       candidate_path \in CyclePaths \cup {"/d/./a.figlayout"} :
        LET r == DetectCircularReference(files, parent_path, candidate_path)
        IN  /\ check' = [called |-> TRUE, parent_path |-> parent_path,
                         candidate_path |-> candidate_path,
                         value |-> r.value, raised |-> r.raised]
            /\ last' = "check"
            /\ UNCHANGED <<rows, cells, text_items, hist, index, detached, nextId,
                           pushed, page, result, files, current_project_path, windows,
                           clean_index, marked>>

NextCycle == DetectCircularReferenceCall

SpecCycle == InitCycle /\ [][NextCycle]_vars

\* ------------------------------------------------------------ properties

\* C1: once a structural command has been reverted, Project.rows and the whole
\* cell tree are equal to the state the command was constructed on and applied to.
C1_RevertRestoresState ==
    (last = "undo" /\ hist[index + 1].type \in StructuralCmdTypes) =>
        /\ rows = hist[index + 1].pre_rows
        /\ Strip(cells) = hist[index + 1].pre_cells

\* a container was built, one of its children was deleted (the parent
\* unwrapped), and the deletion was reverted
C1_Witness ==
    /\ last = "undo" /\ index = 1 /\ Len(hist) = 2
    /\ hist[1].type = "WrapAndInsert"
    /\ hist[2].type = "DeleteSubCell"
    /\ hist[2].cell_id \in IdsOf(hist[2].pre_cells)
    /\ hist[2].cell_id \notin {c.id : c \in Range(hist[2].pre_cells)}
    /\ \E c \in Range(cells) : ~IsLeaf(c)

\* C2: under any sequence of InsertRow, DeleteRow, InsertCell, DeleteCell and
\* ChangeRowCount, applied and reverted, every (row.index, col) with
\* 0 <= col < column_count holds exactly one top-level cell, and no top-level
\* cell lies outside these slots.
C2_GridSlots ==
    /\ \A k \in 1..Len(rows) : \A col \in 0..(rows[k].column_count - 1) :
          Cardinality({j \in 1..Len(cells) :
                          /\ cells[j].row_index = rows[k].index
                          /\ cells[j].col_index = col}) = 1
    /\ \A j \in 1..Len(cells) : \E k \in 1..Len(rows) :
          /\ cells[j].row_index = rows[k].index
          /\ cells[j].col_index \in 0..(rows[k].column_count - 1)

\* a cell was inserted in front of a row, then a row deletion was applied and reverted
C2_Witness ==
    /\ last = "undo" /\ index = 1 /\ Len(hist) = 2
    /\ hist[1].type = "InsertCell" /\ hist[1].col_index = 0
    /\ hist[2].type = "DeleteRow"
    /\ Len(cells) >= 2

\* C3: under the same sequences the row indices are pairwise distinct and
\* every row has column_count >= 1.
C3_RowsWellFormed ==
    /\ \A j, k \in 1..Len(rows) : j # k => rows[j].index # rows[k].index
    /\ \A k \in 1..Len(rows) : rows[k].column_count >= 1

\* a row was inserted in front of a one-column row, whose only cell was then
\* the target of a cell deletion
C3_Witness ==
    /\ last = "push" /\ index = 2
    /\ hist[1].type = "InsertRow" /\ hist[1].row_index = 0
    /\ hist[2].type = "DeleteCell" /\ hist[2].row_index = 1
    /\ Len(rows) = 2
    /\ \E k \in 1..Len(rows) : rows[k].index = 1 /\ rows[k].column_count = 1

\* C4: after any sequence of SplitCell, WrapAndInsert, DeleteSubCell, Swap,
\* DropImage and PropertyChange, no cell with children carries an image_path,
\* a true is_placeholder or a nested_layout_path.
C4_ContainersCarryNoContent ==
    \A c \in Range(AllCells(cells)) :
        ~IsLeaf(c) => /\ c.image_path = NULL
                      /\ c.is_placeholder = FALSE
                      /\ c.nested_layout_path = NULL

\* C5: the ids of all cells of the tree are pairwise distinct, the container
\* and the clone made by WrapAndInsert included.
C5_CellIdsDistinct ==
    Cardinality(IdsOf(cells)) = Len(AllCells(cells))

C7_RatiosMatchChildren ==
    \A c \in Range(AllCells(cells)) :
        ~IsLeaf(c) => Len(c.split_ratios) = Len(c.children)

\* a sibling was inserted into a split container, which then has three children
C7_Witness ==
    /\ last = "push" /\ index = 2
    /\ hist[2].type = "InsertSubCell"
    /\ \E c \in Range(AllCells(cells)) :
          /\ Len(c.children) >= 3
          /\ Len(c.split_ratios) = Len(c.children)

\* C8: right after DeleteRow, DeleteCell, DeleteSubCell or ChangeRowCount has
\* been applied, no cell-scoped TextItem names a cell that is not in the tree.
C8_NoOrphanTextItems ==
    (last \in {"push", "redo"} /\
     hist[index].type \in {"DeleteRow", "DeleteCell", "DeleteSubCell", "ChangeRowCount"}) =>
        \A k \in 1..Len(text_items) :
            text_items[k].scope = "cell" => text_items[k].parent_id \in IdsOf(cells)

\* C9: DeleteRow applied to a Project of one row leaves rows and cells as they were.
C9_LastRowIsKept ==
    (last = "push" /\ hist[index].type = "DeleteRow"
                   /\ Len(hist[index].pre_rows) = 1) =>
        /\ rows = hist[index].pre_rows
        /\ Strip(cells) = hist[index].pre_cells

\* C10: DeleteCell(row, col) leaves rows and cells as they were when the row has
\* one column or does not exist; otherwise it removes exactly the cell at
\* (row, col), moves the later cells of the row one column to the left and
\* lowers the row's column_count by 1.
C10_DeleteCell ==
    (last = "push" /\ hist[index].type = "DeleteCell") =>
        LET cmd == hist[index]
            pre_rows == cmd.pre_rows
            pre_cells == cmd.pre_cells
            at == {k \in 1..Len(pre_rows) : pre_rows[k].index = cmd.row_index}
            gone == {c \in Range(pre_cells) :
                        c.row_index = cmd.row_index /\ c.col_index = cmd.col_index}
        IN  IF at = {} \/ \A k \in at : pre_rows[k].column_count <= 1
            THEN rows = pre_rows /\ Strip(cells) = pre_cells
            ELSE /\ Cardinality(gone) = 1
                 /\ Len(cells) = Len(pre_cells) - 1
                 /\ {c.id : c \in Range(cells)} =
                        {c.id : c \in Range(pre_cells)} \ {g.id : g \in gone}
                 /\ \A c \in Range(Strip(cells)) : \E b \in Range(pre_cells) :
                        /\ b.id = c.id
                        /\ c = [b EXCEPT !.col_index =
                                   IF b.row_index = cmd.row_index /\ b.col_index > cmd.col_index
                                   THEN @ - 1 ELSE @]
                 /\ Len(rows) = Len(pre_rows)
                 /\ \A k \in 1..Len(rows) :
                        rows[k] = [pre_rows[k] EXCEPT !.column_count =
                                      IF k \in at THEN @ - 1 ELSE @]

\* the first cell of a two-column row was deleted and the second moved to column 0
C10_Witness ==
    /\ last = "push" /\ hist[index].type = "DeleteCell"
    /\ hist[index].col_index = 0
    /\ \E k \in 1..Len(rows) :
          /\ rows[k].index = hist[index].row_index
          /\ rows[k].column_count = 1
          /\ hist[index].pre_rows[k].column_count = 2
    /\ Len(cells) = Len(hist[index].pre_cells) - 1

C12_UnwrapCorrect ==
    (last = "push" /\ hist[index].type = "DeleteSubCell") =>
        LET cmd == hist[index]
            path == ParentPathIn(cmd.pre_cells, 1, cmd.cell_id)
            parent == CellAt(cmd.pre_cells, path)
            idx == CHOOSE k \in 1..2 : /\ parent.children[k].id = cmd.cell_id
                                       /\ \A j \in 1..(k - 1) :
                                             parent.children[j].id # cmd.cell_id
            sole == parent.children[3 - idx]
            now == CellAt(Strip(cells), path)
        IN  (path # <<>> /\ Len(parent.children) = 2) =>
                /\ now.id = parent.id
                /\ now.row_index = parent.row_index
                /\ now.col_index = parent.col_index
                /\ Len(now.split_ratios) = Len(now.children)
                /\ IF IsLeaf(sole)
                   THEN /\ IsLeaf(now)
                        /\ now.split_direction = "none"
                        /\ now.split_ratios = <<>>
                   ELSE /\ now.children = sole.children
                        /\ now.split_direction = sole.split_direction
                        /\ now.split_ratios = sole.split_ratios

\* the leaf child of the outer container was deleted, and the container that
\* was its sibling was promoted into the parent
C12_Witness ==
    /\ last = "push" /\ hist[index].type = "DeleteSubCell"
    /\ LET cmd == hist[index]
           path == ParentPathIn(cmd.pre_cells, 1, cmd.cell_id)
       IN  /\ path # <<>>
           /\ Len(CellAt(cmd.pre_cells, path).children) = 2
           /\ \E k \in 1..2 :
                 /\ CellAt(cmd.pre_cells, path).children[k].id # cmd.cell_id
                 /\ ~IsLeaf(CellAt(cmd.pre_cells, path).children[k])
                 /\ CellAt(Strip(cells), path).children =
                        CellAt(cmd.pre_cells, path).children[k].children

C14_RedoReproducesApply ==
    [][(last = "undo" /\ last' = "redo" /\ Len(hist) = index + 1) =>
          /\ rows' = hist[index + 1].post_rows
          /\ Strip(cells') = hist[index + 1].post_cells]_vars

\* C15: Swap and MultiSwap exchange all content fields (image path, placeholder
\* flag, fit mode, rotation, the four paddings, horizontal and vertical
\* alignment) between the two cells of a pair, and never exchange ids, row and
\* column indices or the position in the tree, so that every
\* TextItem.parent_id refers to the same cell as before.
C15_SwapExchangesContent ==
    LET cmd == hist[index]
        pairs == IF cmd.type = "Swap" THEN <<<<cmd.c1, cmd.c2>>>>
                 ELSE [k \in 1..Len(cmd.sources) |-> <<cmd.sources[k], cmd.targets[k]>>]
        objs == UNION {{pairs[k][1], pairs[k][2]} : k \in 1..Len(pairs)}
        before == AllCells(cmd.pre_cells)
        after == AllCells(cells)
        At(o) == CHOOSE k \in 1..Len(after) : after[k].obj = o
        SwapContentFields ==
            {"image_path", "is_placeholder", "fit_mode", "rotation",
             "padding_top", "padding_bottom", "padding_left", "padding_right",
             "align_h", "align_v"}
    IN  (/\ last = "push" /\ cmd.type \in {"Swap", "MultiSwap"}
         /\ objs \subseteq ObjsOf(cells)
         /\ Cardinality(objs) = 2 * Len(pairs))
        => /\ Len(after) = Len(before)
           /\ \A k \in 1..Len(after) :
                 /\ after[k].id = before[k].id
                 /\ after[k].row_index = before[k].row_index
                 /\ after[k].col_index = before[k].col_index
                 /\ Len(after[k].children) = Len(before[k].children)
           /\ \A k \in 1..Len(text_items) : text_items[k].parent_id \in IdsOf(cmd.pre_cells)
           /\ \A k \in 1..Len(pairs) : \A f \in SwapContentFields :
                 /\ after[At(pairs[k][1])][f] = before[At(pairs[k][2])][f]
                 /\ after[At(pairs[k][2])][f] = before[At(pairs[k][1])][f]

\* C16: when ChangeRowCount(n) has been applied and ChangeRowCount(n) is
\* applied again, Project.rows and Project.cells after the second apply are
\* identical to those after the first: no cell is added, dropped or replaced.
C16_ChangeRowCountIdempotent ==
    (/\ last = "push" /\ index >= 2
     /\ hist[index].type = "ChangeRowCount"
     /\ hist[index - 1].type = "ChangeRowCount"
     /\ hist[index].count = hist[index - 1].count
     /\ hist[index].pre_rows = hist[index - 1].post_rows
     /\ hist[index].pre_cells = hist[index - 1].post_cells)
    => /\ rows = hist[index - 1].post_rows
       /\ Strip(cells) = hist[index - 1].post_cells

\* ChangeRowCount(2) was applied twice to a project of one row: the first
\* apply added a row of two cells
C16_Witness ==
    /\ last = "push" /\ index = 2
    /\ hist[1].type = "ChangeRowCount" /\ hist[1].count = 2
    /\ hist[2].type = "ChangeRowCount" /\ hist[2].count = 2
    /\ Len(hist[1].pre_rows) = 1
    /\ Len(rows) = 2
    /\ Len(cells) > Len(hist[1].pre_cells)
    /\ hist[2].pre_cells = hist[1].post_cells

\* C17: no edit issued through PropertyChangeCommand changes the shape of the
\* tree: the set of cells of the project (top-level cells and children) is
\* the same before apply(), after apply() and after revert().
C17_PropertyChangeKeepsCells ==
    /\ (last = "push" /\ hist[index].type \in {"PropertyChange", "RowPropertyChange"})
          => IdsOf(cells) = IdsOf(hist[index].pre_cells)
    /\ (last = "undo" /\ hist[index + 1].type \in {"PropertyChange", "RowPropertyChange"})
          => IdsOf(cells) = IdsOf(hist[index + 1].pre_cells)

\* C18: the Project is mutated only inside apply() / revert() of a command of
\* the history: every step that changes the rows, the cells or the text items
\* is a push, an undo or a redo, which moves the index of the history.
C18_MutationOnlyInCommands ==
    [][(<<rows, cells, text_items>>' # <<rows, cells, text_items>>)
          => (last' \in {"push", "undo", "redo"} /\ index' # index)]_vars

\* C19: partition completeness.  For a Project with a positive content area,
\* calculate_layout gives every row column widths that sum, with the
\* (column_count - 1) gaps, to the content width; row heights that sum, with
\* the gaps between rows and the label rows, to the content height; and in
\* every container, recursively, children whose sizes along the split axis
\* sum, with the (n - 1) gaps, to the size of the parent rect along that axis.
C19_PartitionComplete ==
    LET R == result.value
        gap == Num(page.gap_mm)
        content_width == page.page_width_mm - page.margin_left_mm - page.margin_right_mm
        content_height == page.page_height_mm - page.margin_top_mm - page.margin_bottom_mm
        Gaps(n) == FMul(Num(n - 1), gap)
        TopId(r, col) == (CHOOSE c \in Range(cells) :
                             c.row_index = r.index /\ c.col_index = col).id
        Columns(r) ==
            FAdd(FSum([k \in 1..r.column_count |-> R.cell_rects[TopId(r, k - 1)][3]]),
                 Gaps(r.column_count)) = Num(content_width)
        Rows ==
            FAdd(FSum([k \in 1..Len(rows) |-> R.row_rects[rows[k].index][4]]),
                 Gaps(Len(rows))) = Num(content_height)
        Axis(c) == IF c.split_direction = "vertical" THEN 4 ELSE 3
        Children(c) ==
            FAdd(FSum([k \in 1..Len(c.children) |->
                          R.cell_rects[c.children[k].id][Axis(c)]]),
                 Gaps(Len(c.children))) = R.cell_rects[c.id][Axis(c)]
    IN  (result.called /\ rows # <<>> /\ content_width > 0 /\ content_height > 0) =>
            /\ \A k \in 1..Len(rows) : Columns(rows[k])
            /\ Rows
            /\ \A c \in Range(AllCells(cells)) : ~IsLeaf(c) => Children(c)

\* C20: no overlap.  In every LayoutResult the sibling rects of one level (the
\* columns of a row, the rows of the page, the children of a container) are
\* pairwise non-overlapping and ordered by index: each sibling starts at or
\* after the end of the previous sibling plus the gap.
C20_NoOverlap ==
    LET R == result.value
        gap == Num(page.gap_mm)
        Lo(r, a) == IF FLt(FAdd(r[a], r[a + 2]), r[a]) THEN FAdd(r[a], r[a + 2]) ELSE r[a]
        Hi(r, a) == FMax(r[a], FAdd(r[a], r[a + 2]))
        \* the rects s, in the order of their index, along axis a (1: x, 2: y)
        Apart(s, a) ==
            /\ \A k \in 1..(Len(s) - 1) :
                  FLe(FAdd(FAdd(s[k][a], s[k][a + 2]), gap), s[k + 1][a])
            /\ \A i, j \in 1..Len(s) : i < j => FLe(Hi(s[i], a), Lo(s[j], a))
        TopId(r, col) == (CHOOSE c \in Range(cells) :
                             c.row_index = r.index /\ c.col_index = col).id
        Columns(r) == [k \in 1..r.column_count |-> R.cell_rects[TopId(r, k - 1)]]
        Rows == [k \in 1..Len(rows) |-> R.row_rects[rows[k].index]]
        Children(c) == [k \in 1..Len(c.children) |-> R.cell_rects[c.children[k].id]]
    IN  (result.called /\ DOMAIN R.cell_rects # {}) =>
            /\ \A k \in 1..Len(rows) : Apart(Columns(rows[k]), 1)
            /\ Apart(Rows, 2)
            /\ \A c \in Range(AllCells(cells)) :
                  ~IsLeaf(c) =>
                      Apart(Children(c), IF c.split_direction = "vertical" THEN 2 ELSE 1)

\* C21: calculate_layout is pure.  A call leaves every field of the Project,
\* its rows, cells and text items unchanged (also when a column_ratios list is
\* shorter or longer than column_count), and a second call on the same Project
\* returns a result equal to the first.
C21_LayoutPure ==
    result.called =>
        /\ rows = result.before.rows
        /\ cells = result.before.cells
        /\ text_items = result.before.text_items
        /\ page = result.before.page
        /\ CalculateLayout(CurP, page) = result.value


\* C22: for a Project with a positive content area, LayoutResult.cell_rects
\* has an entry for a cell id exactly when that cell is a leaf, at any depth,
\* of a top-level cell lying in a valid grid slot (its row exists and its
\* col_index is below the row's column_count); container cells get no entry.
C22_CellRectsOnlyLeaves ==
    LET R == result.value
        content_width == page.page_width_mm - page.margin_left_mm - page.margin_right_mm
        content_height == page.page_height_mm - page.margin_top_mm - page.margin_bottom_mm
        Valid(c) == \E k \in 1..Len(rows) :
                        rows[k].index = c.row_index /\ c.col_index < rows[k].column_count
        placed == AllCells(SelectSeq(cells, Valid))
    IN  (result.called /\ content_width > 0 /\ content_height > 0) =>
            DOMAIN R.cell_rects = {c.id : c \in {d \in Range(placed) : IsLeaf(d)}}


\* C23: for a Project with a positive content area, among the cells that are
\* laid out: under label_row_above, label_rects has an entry for a cell exactly
\* when the cell is a leaf, a cell-scoped TextItem whose subtype is not corner
\* names it as parent_id, and it is top-level or a child of a vertical split
\* (never a child of a horizontal split).  With label_placement in_cell,
\* label_rects is empty and no label space is reserved: the result is that of
\* the same Project without text items.
C23_LabelRects ==
    LET R == result.value
        content_width == page.page_width_mm - page.margin_left_mm - page.margin_right_mm
        content_height == page.page_height_mm - page.margin_top_mm - page.margin_bottom_mm
        Valid(c) == \E k \in 1..Len(rows) :
                        rows[k].index = c.row_index /\ c.col_index < rows[k].column_count
        placed == Range(AllCells(SelectSeq(cells, Valid)))
        named == {text_items[k].parent_id : k \in
                     {j \in 1..Len(text_items) :
                         text_items[j].scope = "cell" /\ text_items[j].subtype # "corner"}}
        InVertical(c) == \E d \in placed :
                             d.split_direction = "vertical" /\ c \in Range(d.children)
        expected == {c.id : c \in {d \in placed :
                                      /\ IsLeaf(d)
                                      /\ d.id \in named
                                      /\ (d \in Range(cells) \/ InVertical(d))}}
    IN  (result.called /\ content_width > 0 /\ content_height > 0) =>
            IF page.label_placement = "label_row_above"
            THEN DOMAIN R.label_rects = expected
            ELSE /\ DOMAIN R.label_rects = {}
                 /\ R = CalculateLayout([CurP EXCEPT !.text_items = <<>>], page)

\* a call under label_row_above with a numbering label on a leaf child of a
\* vertical split, which has a label rect
C23_Witness ==
    /\ result.called
    /\ page.label_placement = "label_row_above"
    /\ \E c \in Range(AllCells(cells)) :
          /\ c.split_direction = "vertical"
          /\ \E k \in 1..Len(c.children) :
                /\ IsLeaf(c.children[k])
                /\ \E j \in 1..Len(text_items) :
                      /\ text_items[j].parent_id = c.children[k].id
                      /\ text_items[j].subtype # "corner"
                /\ c.children[k].id \in DOMAIN result.value.label_rects


\* C24: mixed label rows.  With label_placement label_row_above, a positive
\* content area, two rows (indices 0 and 1) of equal height_ratio, and a
\* numbering label on exactly one top-level leaf cell of row 0 (in one of the
\* row's columns) and on no other cell, row_rects[0].height exceeds
\* row_rects[1].height by exactly label_row_height + gap, and label_rects
\* contains exactly one entry.
C24_MixedLabelRows ==
    LET R == result.value
        content_width == page.page_width_mm - page.margin_left_mm - page.margin_right_mm
        content_height == page.page_height_mm - page.margin_top_mm - page.margin_bottom_mm
        label_row_h == IF page.label_row_height > 0 THEN Num(page.label_row_height)
                       ELSE LabelRowHeightMm(page)
        named == {text_items[k].parent_id : k \in
                     {j \in 1..Len(text_items) :
                         text_items[j].scope = "cell" /\ text_items[j].subtype # "corner"}}
        scenario ==
            /\ result.called
            /\ content_width > 0 /\ content_height > 0
            /\ page.label_placement = "label_row_above"
            /\ Len(rows) = 2 /\ rows[1].index = 0 /\ rows[2].index = 1
            /\ rows[1].height_ratio = rows[2].height_ratio
            /\ Cardinality(named) = 1
            /\ \E c \in Range(cells) :
                  /\ named = {c.id}
                  /\ IsLeaf(c)
                  /\ c.row_index = 0 /\ c.col_index < rows[1].column_count
    IN  scenario =>
            /\ FSub(R.row_rects[0][4], R.row_rects[1][4]) = FAdd(label_row_h, Num(page.gap_mm))
            /\ Cardinality(DOMAIN R.label_rects) = 1

\* the scenario of C24 with rows of positive height: a label row of 8 mm and
\* a gap of 2 mm make row 0 higher than row 1 by 10 mm
C24_Witness ==
    /\ result.called
    /\ page.label_placement = "label_row_above" /\ page.label_row_height = 8
    /\ page.gap_mm = 2
    /\ Len(rows) = 2 /\ rows[1].height_ratio = rows[2].height_ratio
    /\ \E c \in Range(cells) :
          /\ IsLeaf(c) /\ c.row_index = 0 /\ c.col_index < rows[1].column_count
          /\ DOMAIN result.value.label_rects = {c.id}
    /\ FLt(Num(0), result.value.row_rects[1][4])
    /\ FSub(result.value.row_rects[0][4], result.value.row_rects[1][4]) = Num(10)


\* C25: no rect of a LayoutResult (cell_rects, label_rects, row_rects) has a
\* negative width or height: where gaps and label rows exceed the space along
\* an axis, the sizes along that axis are zero, for rows, for the columns of a
\* row and for the children of a container alike.
C25_NoNegativeSize ==
    LET R == result.value
        NonNeg(d) == \A k \in DOMAIN d : FLe(Num(0), d[k][3]) /\ FLe(Num(0), d[k][4])
    IN  result.called => NonNeg(R.cell_rects) /\ NonNeg(R.label_rects) /\ NonNeg(R.row_rects)


\* C26: ratio normalisation falls back to equal weighting.  When the
\* height_ratios of all rows, the column_ratios of a row or the split_ratios of
\* a container sum to zero, calculate_layout gives every sibling an equal share
\* of the available size along that axis: the result is the one for the same
\* Project with those ratios replaced by equal weights.
C26_ZeroSumEqualShare ==
    LET Zero(s) == s # <<>> /\ FSum([k \in 1..Len(s) |-> Num(s[k])]) = Num(0)
        heights == [k \in 1..Len(rows) |-> rows[k].height_ratio]
        EqualRow(r) ==
            [r EXCEPT !.height_ratio = IF Zero(heights) THEN 1 ELSE @,
                      !.column_ratios =
                          IF r.column_count > 0
                             /\ Zero(SubSeq(PaddedColRatios(r), 1, r.column_count))
                          THEN <<>> ELSE @]
        RECURSIVE EqualCells(_)
        EqualCells(cs) ==
            [k \in 1..Len(cs) |->
                [cs[k] EXCEPT !.children = EqualCells(@),
                              !.split_ratios =
                                  IF Zero([j \in 1..Len(cs[k].children) |->
                                              IF j <= Len(@) THEN @[j] ELSE 1])
                                  THEN <<>> ELSE @]]
        equal == [CurP EXCEPT !.rows = [k \in 1..Len(rows) |-> EqualRow(rows[k])],
                              !.cells = EqualCells(cells)]
    IN  result.called => result.value = CalculateLayout(equal, page)


\* C27: degenerate geometry.  When the page width minus the left and right
\* margins, or the page height minus the top and bottom margins, is <= 0, or
\* the Project has no rows, calculate_layout returns a LayoutResult whose
\* cell_rects, label_rects, row_rects and figure_rects are all empty.
C27_DegenerateGeometry ==
    LET R == result.value
        content_width == page.page_width_mm - page.margin_left_mm - page.margin_right_mm
        content_height == page.page_height_mm - page.margin_top_mm - page.margin_bottom_mm
    IN  (result.called /\ (content_width <= 0 \/ content_height <= 0 \/ rows = <<>>)) =>
            /\ DOMAIN R.cell_rects = {}
            /\ DOMAIN R.label_rects = {}
            /\ DOMAIN R.row_rects = {}
            /\ DOMAIN R.figure_rects = {}

\* a call on a Project with rows, cells and a label whose content width is
\* negative while its content height is positive
C27_Witness ==
    /\ result.called
    /\ page.page_width_mm - page.margin_left_mm - page.margin_right_mm < 0
    /\ page.page_height_mm - page.margin_top_mm - page.margin_bottom_mm > 0
    /\ rows # <<>> /\ cells # <<>> /\ text_items # <<>>
    /\ page.label_placement = "label_row_above"
    /\ DOMAIN result.value.cell_rects = {}


\* C28: cycle check completeness.  detect_circular_reference(parent, candidate)
\* returns True whenever parent and candidate are the same file after path
\* normalisation, or the candidate file references the parent through a chain
\* of nested_layout_path references held by cells, at any depth of the cell
\* tree, of the files on the chain.
C28_CycleCheckComplete ==
    LET parent == NormPath(check.parent_path)
        candidate == NormPath(check.candidate_path)
        Holders(p) == {c \in Range(AllCells(FileAt(files, p).cells)) :
                          c.nested_layout_path # NULL}
        Refs(p) == {NormPath(c.nested_layout_path) : c \in Holders(p)}
        Step(S) == S \cup UNION {Refs(p) : p \in S}
        reached == Step(Step(Step({candidate})))
    IN  (check.called /\ (parent = candidate \/ parent \in reached)) =>
            (check.value /\ ~check.raised)



\* C29: nested-reference cycles are rejected before the reference is written.
\* After any sequence of Import Layout operations, saves, undos and redos in
\* the open windows, the graph of the nested_layout_path references among the
\* saved layout files has no cycle.
C29_SavedFilesAcyclic ==
    LET Holders(p) == {c \in Range(AllCells(files[p].cells)) : c.nested_layout_path # NULL}
        Refs(p) == {NormPath(c.nested_layout_path) : c \in Holders(p)} \cap DOMAIN files
        Step(S) == S \cup UNION {Refs(p) : p \in S}
        RECURSIVE Reached(_, _)
        Reached(S, n) == IF n = 0 THEN S ELSE Reached(Step(S), n - 1)
    IN  \A p \in DOMAIN files :
            p \notin Reached(Refs(p), Cardinality(DOMAIN files))

\* C30: the cycle check fails open.  A file that cannot be read or parsed, be
\* it the candidate or a file reached through references, is treated as having
\* no references: the call returns what it returns when every such file is a
\* layout without cells, and no exception escapes it.
C30_FailsOpen ==
    LET Broken(f) == f.kind \in {"unreadable", "not_object"}
        repaired == [p \in DOMAIN files |->
                        IF Broken(files[p]) THEN [MissingFile EXCEPT !.kind = "layout"]
                        ELSE files[p]]
    IN  check.called =>
            /\ ~check.raised
            /\ check.value = DetectCircularReference(repaired, check.parent_path,
                                                     check.candidate_path).value

C33_FullUnwind ==
    (index = 0 /\ hist # <<>> /\ last = "undo") =>
        /\ rows = hist[1].pre_rows
        /\ Strip(cells) = hist[1].pre_cells

\* ---------------------------------------------------------------- C34
\* C34: when a command of the history targets a cell that an earlier command
\* of the history created, then, once every command has been redone, the
\* project equals the project the push of the last command left (its rows,
\* and its cells with all their fields; the ids of the cells are left out of
\* the comparison, as every redo that creates a cell draws a new one).
C34_RedoAll ==
    LET RECURSIVE NoIds(_)
        NoIds(cs) == [k \in 1..Len(cs) |->
                         [cs[k] EXCEPT !.id = 0, !.children = NoIds(cs[k].children)]]
        OnCreated(k) == /\ hist[k].type = "DropImage"
                        /\ ReadObj(CurP, hist[k].c1).id \notin IdsOf(hist[1].pre_cells)
    IN  (/\ index = Len(hist)
         /\ last = "redo"
         /\ \E k \in 2..Len(hist) : OnCreated(k)) =>
            /\ rows = hist[Len(hist)].post_rows
            /\ NoIds(Strip(cells)) = NoIds(hist[Len(hist)].post_cells)

\* ---------------------------------------------------------------- C35
\* C35: apply() followed by revert() of a MultiSwap command on any two lists
\* of cells of equal length (lists that share cells included) restores the
\* content fields of every cell, and with them the whole project.
C35_MultiSwapRoundTrip ==
    (last = "undo" /\ hist[index + 1].type = "MultiSwap") =>
        /\ rows = hist[index + 1].pre_rows
        /\ Strip(cells) = hist[index + 1].pre_cells

\* C36: AutoLayoutCommand round trip: once the command has been applied and
\* reverted, each row's height_ratio and column_ratios, the page height and
\* the split_ratios of every container cell are what they were when the
\* command was constructed.
C36_AutoLayoutRoundTrip ==
    (last = "undo" /\ hist[index + 1].type = "AutoLayout")
        => /\ rows = hist[index + 1].pre_rows
           /\ page.page_height_mm = hist[index + 1].old_page_height
           /\ \A c \in Range(AllCells(cells)) :
                 \E b \in Range(AllCells(hist[index + 1].pre_cells)) :
                     b.id = c.id /\ b.split_ratios = c.split_ratios

\* C37: when DeleteSubCell leaves a single leaf child, the parent's content
\* fields afterwards all equal the surviving child's: image path, placeholder
\* flag, fit mode, rotation, alignment, the four paddings, nested_layout_path
\* and every scale-bar parameter.
C37_UnwrapPromotesContent ==
    (last = "push" /\ hist[index].type = "DeleteSubCell") =>
        LET cmd == hist[index]
            path == ParentPathIn(cmd.pre_cells, 1, cmd.cell_id)
            parent == CellAt(cmd.pre_cells, path)
            idx == CHOOSE k \in 1..2 : /\ parent.children[k].id = cmd.cell_id
                                       /\ \A j \in 1..(k - 1) :
                                             parent.children[j].id # cmd.cell_id
            sole == parent.children[3 - idx]
            now == CellAt(Strip(cells), path)
        IN  (path # <<>> /\ Len(parent.children) = 2 /\ IsLeaf(sole)) =>
                \A f \in {"image_path", "is_placeholder", "fit_mode", "rotation",
                          "align_h", "align_v", "padding_top", "padding_bottom",
                          "padding_left", "padding_right", "nested_layout_path",
                          "scale_bar_enabled", "scale_bar_mode", "scale_bar_length_um",
                          "scale_bar_color"} :
                    now[f] = sole[f]

\* C38: the cycle check has no false positives.  detect_circular_reference(
\* parent, candidate) returns True only if parent and candidate are the same
\* file or the parent is reachable from the candidate through
\* nested_layout_path references; a file reached along two reference paths
\* that does not lead to the parent yields False.
C38_NoFalsePositives ==
    LET parent == NormPath(check.parent_path)
        candidate == NormPath(check.candidate_path)
        Holders(p) == {c \in Range(AllCells(FileAt(files, p).cells)) :
                          c.nested_layout_path # NULL}
        Refs(p) == {NormPath(c.nested_layout_path) : c \in Holders(p)}
        Step(S) == S \cup UNION {Refs(p) : p \in S}
        reached == Step(Step(Step({candidate})))
    IN  (check.called /\ check.value) => (parent = candidate \/ parent \in reached)

\* C39: label space is reserved only where a label is drawn.  In
\* label_row_above mode, after AddText (numbering label), SplitCell and
\* WrapAndInsert commands, every row for which calculate_layout reserves a
\* label row above it holds a cell with an entry in label_rects, and no cell
\* has label space reserved for it twice: where a label row is reserved above
\* the row of a labelled top-level cell, the label rect recorded under the
\* id of that cell lies in that label row and not inside a vertical split.
C39_LabelSpaceOnlyForLabels ==
    LET R == result.value
        B == result.before
        Reserved(idx) == R.row_rects[idx][4] # R.row_heights[idx]
        InRow(idx) == UNION {Range(AllCells(<<B.cells[k]>>)) :
                                k \in {j \in 1..Len(B.cells) : B.cells[j].row_index = idx}}
    IN  (result.called /\ B.page.label_placement = "label_row_above") =>
            /\ \A idx \in DOMAIN R.row_rects :
                  Reserved(idx) => \E c \in InRow(idx) : c.id \in DOMAIN R.label_rects
            /\ \A k \in 1..Len(B.cells) :
                  (/\ B.cells[k].row_index \in DOMAIN R.row_rects
                   /\ Reserved(B.cells[k].row_index)
                   /\ B.cells[k].id \in DOMAIN R.label_rects)
                      => R.label_rects[B.cells[k].id][2] = R.row_rects[B.cells[k].row_index][2]

\* C40: column weights follow their cells.  After InsertCell(row, col) or
\* DeleteCell(row, col) has acted on a row with non-empty column_ratios, every
\* surviving top-level cell of that row is laid out with the column weight it
\* had before the command, the new cell with weight 1, and column_ratios has
\* exactly column_count entries.
C40_ColumnWeightsFollowCells ==
    (last = "push" /\ hist[index].type \in {"InsertCell", "DeleteCell"}) =>
        LET cmd == hist[index]
            k == FindRow(cmd.pre_rows, cmd.row_index)
            before == cmd.pre_rows[k]
            now == rows[FindRow(rows, cmd.row_index)]
            Weight(r, c) == PaddedColRatios(r)[c.col_index + 1]
            acted == /\ k # 0
                     /\ before.column_ratios # <<>>
                     /\ cmd.type = "DeleteCell" => before.column_count > 1
        IN  acted =>
                /\ Len(now.column_ratios) = now.column_count
                /\ \A c \in Range(cells) :
                      (c.row_index = cmd.row_index /\ c.col_index < now.column_count) =>
                          IF c.id \in IdsOf(cmd.pre_cells)
                          THEN \A b \in Range(cmd.pre_cells) :
                                  (b.id = c.id /\ b.col_index < before.column_count) =>
                                      Weight(now, c) = Weight(before, b)
                          ELSE Weight(now, c) = 1
====
